---- MODULE Spec2Model ----
(***************************************************************************)
(* A model of the ronkey interpreter: the tree-walking evaluator of        *)
(* evaluator.rs over the AST of ast.rs and the runtime values of           *)
(* object.rs, driven line by line as repl.rs drives it.                    *)
(***************************************************************************)
EXTENDS Integers, Sequences, FiniteSets, TLC

(***************************************************************************)
(* Bounds of the model.                                                    *)
(***************************************************************************)
\* number of lines the read-eval-print loop is followed for
MaxLines == 4
\* longest array literal of the indexing programs
MaxLen == 2
\* longest input given to a Lexer, in characters
MaxChars == 3

(***************************************************************************)
(* ast.rs: statements and expressions.  An Option is a sequence of length  *)
(* 0 or 1; a Vec is a sequence; the BTreeMap of a map literal is the       *)
(* sequence of its (key, value) pairs in the order the BTreeMap iterates.  *)
(***************************************************************************)
StmtLet(name, value)  == [stmt |-> "Let", name |-> name, value |-> value]
StmtReturn(value)     == [stmt |-> "Return", value |-> value]
StmtExpression(value) == [stmt |-> "Expression", value |-> value]
StmtBlock(statements) == [stmt |-> "Block", statements |-> statements]

ExprIdentifier(name)  == [expr |-> "Identifier", name |-> name]
ExprInteger(value)    == [expr |-> "Integer", int |-> value]
ExprString(value)     == [expr |-> "String", str |-> value]
ExprBoolean(value)    == [expr |-> "Boolean", bool |-> value]
ExprPrefix(operator, right) ==
    [expr |-> "Prefix", operator |-> operator, right |-> right]
ExprInfix(left, operator, right) ==
    [expr |-> "Infix", left |-> left, operator |-> operator, right |-> right]
ExprGrouped(inner)    == [expr |-> "Grouped", inner |-> inner]
ExprIf(condition, consequence, alternative) ==
    [expr |-> "If", condition |-> condition, consequence |-> consequence,
     alternative |-> alternative]
ExprFunction(parameters, body) ==
    [expr |-> "Function", parameters |-> parameters, body |-> body]
ExprCall(function, arguments) ==
    [expr |-> "Call", function |-> function, arguments |-> arguments]
ExprArray(elements)   == [expr |-> "Array", elements |-> elements]
ExprIndex(left, index) == [expr |-> "Index", left |-> left, index |-> index]
ExprMap(pairs)        == [expr |-> "Map", pairs |-> pairs]

(***************************************************************************)
(* token.rs: a token without payload is named by its variant; TokenDisplay *)
(* is what Display for Token writes for it.                                *)
(***************************************************************************)
TokenDisplay(token) ==
    CASE token = "Assign"   -> "="
      [] token = "Plus"     -> "+"
      [] token = "Minus"    -> "-"
      [] token = "Asterisk" -> "*"
      [] token = "Slash"    -> "/"
      [] token = "Bang"     -> "!"
      [] token = "Lt"       -> "<"
      [] token = "Gt"       -> ">"
      [] token = "Eq"       -> "=="
      [] token = "Ne"       -> "!="
      [] token = "Comma"    -> ","
      [] token = "Semicolon" -> ";"
      [] token = "Colon"    -> ":"
      [] token = "LParen"   -> "("
      [] token = "RParen"   -> ")"
      [] token = "LBrace"   -> "{"
      [] token = "RBrace"   -> "}"
      [] token = "LBracket" -> "["
      [] token = "RBracket" -> "]"
      [] token = "Function" -> "fn"
      [] token = "Let"      -> "let"
      [] token = "True"     -> "true"
      [] token = "False"    -> "false"
      [] token = "If"       -> "if"
      [] token = "Else"     -> "else"
      [] token = "Return"   -> "return"

Token(kind)           == [tok |-> kind]
TokIdentifier(name)   == [tok |-> "Identifier", name |-> name]
TokInteger(value)     == [tok |-> "Integer", int |-> value]
TokString(value)      == [tok |-> "String", str |-> value]
TokIllegal(ch)        == [tok |-> "Illegal", ch |-> ch]
Eof                   == Token("Eof")

\* Display for Token: the text written, or no return at all.  The last arm
\* of the match, which Illegal and Eof reach, formats the token it was given
\* with Display again, and so without end until the stack is exhausted.
Shown(text) == [returns |-> TRUE, text |-> text]
Unending    == [returns |-> FALSE]

Display(token) ==
    CASE token.tok = "Identifier" -> Shown(token.name)
      [] token.tok = "Integer"    -> Shown("Int(" \o ToString(token.int) \o ")")
      [] token.tok = "String"     -> Shown("String(" \o token.str \o ")")
      [] token.tok \in {"Illegal", "Eof"} -> Unending
      [] OTHER                    -> Shown(TokenDisplay(token.tok))

(***************************************************************************)
(* object.rs: runtime values.                                              *)
(***************************************************************************)
ObjInteger(value) == [type |-> "Integer", int |-> value]
ObjBoolean(value) == [type |-> "Boolean", bool |-> value]
ObjString(value)  == [type |-> "String", str |-> value]
ObjNull           == [type |-> "Null"]
ObjReturn(object) == [type |-> "Return", inner |-> object]
ObjFunction(parameters, body, env) ==
    [type |-> "Function", parameters |-> parameters, body |-> body, env |-> env]
ObjBuildin(function) == [type |-> "Buildin", function |-> function]
ObjArray(elements) == [type |-> "Array", elements |-> elements]
ObjMap(pairs)     == [type |-> "Map", pairs |-> pairs]
ObjLet            == [type |-> "Let"]
ObjDefault        == [type |-> "Default"]

get_type(object) ==
    CASE object.type = "Integer"  -> "Integer"
      [] object.type = "Boolean"  -> "Boolean"
      [] object.type = "String"   -> "String"
      [] object.type = "Null"     -> "null"
      [] object.type = "Function" -> "Function"
      [] object.type = "Buildin"  -> "Buildin Function"
      [] object.type = "Array"    -> "Array"
      [] OTHER                    -> ""

MapKeyUnusable == [key |-> "Unusable"]

\* the projection, had it kept the content of a key and dropped its type:
\* true is 1, false is 0
MapKeyFrom_untyped(object) ==
    CASE object.type = "Integer" -> [key |-> "Integer", int |-> object.int]
      [] object.type = "Boolean" ->
            [key |-> "Integer", int |-> IF object.bool THEN 1 ELSE 0]
      [] object.type = "String"  -> [key |-> "String", str |-> object.str]
      [] OTHER                   -> MapKeyUnusable

MapKeyFrom(object) ==
    CASE object.type = "Integer" -> [key |-> "Integer", int |-> object.int]
      [] object.type = "Boolean" -> [key |-> "Boolean", bool |-> object.bool]
      [] object.type = "String"  -> [key |-> "String", str |-> object.str]
      [] OTHER                   -> MapKeyUnusable

MapPair(key, value) == [key |-> key, value |-> value]

(***************************************************************************)
(* buildin.rs: the table of host functions.  A host function pointer is    *)
(* identified by the name of the function it points to.                    *)
(***************************************************************************)
BuildinOk(object) == [ok |-> TRUE, obj |-> object]
BuildinErr(message) == [ok |-> FALSE, msg |-> message]

buildin_new ==
    [name \in {"len", "first", "last", "rest", "push"} |-> ObjBuildin(name)]

\* The messages of the host functions quote the function name in backquotes,
\* a character a TLA+ string cannot hold; it is written ' here.
wrong_number(got, want) ==
    "wrong number of arguments. got=" \o ToString(got) \o ", want=" \o ToString(want)

\* the source matches the string variant under the name Strings
len(arguments) ==
    IF Len(arguments) # 1 THEN BuildinErr(wrong_number(Len(arguments), 1))
    ELSE IF arguments[1].type = "String"
         THEN BuildinOk(ObjInteger(Len(arguments[1].str)))
         ELSE BuildinErr("argument to 'len' not supported, got "
                         \o get_type(arguments[1]))

first(arguments) ==
    IF Len(arguments) # 1 THEN BuildinErr(wrong_number(Len(arguments), 1))
    ELSE IF arguments[1].type = "Array"
         THEN BuildinOk(IF Len(arguments[1].elements) = 0 THEN ObjNull
                        ELSE Head(arguments[1].elements))
         ELSE BuildinErr("argument to 'first' must be Array, got "
                         \o get_type(arguments[1]))

last(arguments) ==
    IF Len(arguments) # 1 THEN BuildinErr(wrong_number(Len(arguments), 1))
    ELSE IF arguments[1].type = "Array"
         THEN BuildinOk(IF Len(arguments[1].elements) = 0 THEN ObjNull
                        ELSE arguments[1].elements[Len(arguments[1].elements)])
         ELSE BuildinErr("argument to 'last' must be Array, got "
                         \o get_type(arguments[1]))

rest(arguments) ==
    IF Len(arguments) # 1 THEN BuildinErr(wrong_number(Len(arguments), 1))
    ELSE IF arguments[1].type = "Array"
         THEN BuildinOk(IF Len(arguments[1].elements) = 0 THEN ObjNull
                        ELSE ObjArray(Tail(arguments[1].elements)))
         ELSE BuildinErr("argument to 'rest' must be Array, got "
                         \o get_type(arguments[1]))

\* push, had it put the value in front of the elements
push_front(arguments) ==
    IF Len(arguments) # 2 THEN BuildinErr(wrong_number(Len(arguments), 2))
    ELSE IF arguments[1].type = "Array"
         THEN BuildinOk(ObjArray(<<arguments[2]>> \o arguments[1].elements))
         ELSE BuildinErr("argument to 'push' must be Array, got "
                         \o get_type(arguments[1]))

push(arguments) ==
    IF Len(arguments) # 2 THEN BuildinErr(wrong_number(Len(arguments), 2))
    ELSE IF arguments[1].type = "Array"
         THEN BuildinOk(ObjArray(Append(arguments[1].elements, arguments[2])))
         ELSE BuildinErr("argument to 'push' must be Array, got "
                         \o get_type(arguments[1]))

\* the call through the function pointer of Object::Buildin
call_buildin(function, arguments) ==
    CASE function = "len"   -> len(arguments)
      [] function = "first" -> first(arguments)
      [] function = "last"  -> last(arguments)
      [] function = "rest"  -> rest(arguments)
      [] function = "push"  -> push(arguments)


(***************************************************************************)
(* The state: the Environment the read-eval-print loop keeps (repl.rs),    *)
(* the outcome of the last line, and what the last line was.               *)
(***************************************************************************)
VARIABLES
    env,              \* the persistent Environment of repl::start
    response,         \* the Response of the last env.eval(program)
    program,          \* the Program of the last line
    before,           \* the Environment as it was before the last line
    log,              \* the statements evaluated and the bindings made by the last line
    lines,            \* number of lines evaluated so far
    at_definition,    \* for a name bound by a line "let n = fn ...": the
                      \* Environment that line was evaluated on
    overflow_checks,  \* whether the build checks integer overflow (debug profile)
    parse,            \* what parse_program made of the last line given as
                      \* tokens, with the Parser as it left it
    lexer,            \* a Lexer, with the calls of next_token made on it
    printed           \* an expression parsed from a text, what it is printed
                      \* as, and what parsing and printing that again gives

vars == <<env, response, program, before, log, lines, at_definition,
          overflow_checks, parse, lexer, printed>>

(***************************************************************************)
(* evaluator.rs: Environment.  The buildin field holds buildin::new() in   *)
(* every Environment and is never written; it is the table buildin_new.    *)
(***************************************************************************)
Environment_new == [store |-> <<>>, outer |-> <<>>]

new_with_outer(outer) == [store |-> <<>>, outer |-> <<outer>>]

RECURSIVE get(_, _)
get(self, name) ==
    IF name \in DOMAIN self.store
    THEN [found |-> TRUE, obj |-> self.store[name]]
    ELSE IF Len(self.outer) > 0
         THEN get(self.outer[1], name)
         ELSE [found |-> FALSE, msg |-> "identifier not found: " \o name]

\* EvalResult, together with the Environment the evaluation leaves behind
\* (self is a mutable reference) and the log; a panic unwinds like an error
Ok(self, lg, object)   == [kind |-> "Ok", env |-> self, log |-> lg, obj |-> object]
Err(self, lg, message) == [kind |-> "Err", env |-> self, log |-> lg, msg |-> message]
Panic(self, lg, message) == [kind |-> "Panic", env |-> self, log |-> lg, msg |-> message]

\* set, had closures held the Environment they were made on by reference:
\* the binding also shows in the Environment of every closure of the scope
set_shared(self, lg, name, object) ==
    LET seen(o) == IF o.type = "Function"
                   THEN [o EXCEPT !.env.store = (name :> object) @@ @]
                   ELSE o
    IN  Ok([self EXCEPT !.store =
                (name :> object) @@ [n \in DOMAIN self.store |-> seen(self.store[n])]],
           Append(lg, [ev |-> "set", name |-> name, obj |-> object]),
           object)

set(self, lg, name, object) ==
    Ok([self EXCEPT !.store = (name :> object) @@ @],
       Append(lg, [ev |-> "set", name |-> name, obj |-> object]),
       object)

is_truthy(object) ==
    CASE object.type = "Boolean" /\ ~object.bool -> FALSE
      [] object.type = "Null" -> FALSE
      [] OTHER -> TRUE

\* check_arity, had it let surplus arguments pass
check_arity_at_least(parameters, arguments) ==
    IF parameters <= arguments
    THEN [ok |-> TRUE]
    ELSE [ok |-> FALSE,
          msg |-> "expected arity to be " \o ToString(parameters)
                  \o ", got " \o ToString(arguments) \o " instead"]

check_arity(parameters, arguments) ==
    IF parameters = arguments
    THEN [ok |-> TRUE]
    ELSE [ok |-> FALSE,
          msg |-> "expected arity to be " \o ToString(parameters)
                  \o ", got " \o ToString(arguments) \o " instead"]

\* eval_bang_prefix_expression, had it counted the Integer 0 as falsy
eval_bang_prefix_expression_zero_falsy(self, lg, right) ==
    CASE right.type = "Boolean" /\ ~right.bool -> Ok(self, lg, ObjBoolean(TRUE))
      [] right.type = "Null" -> Ok(self, lg, ObjBoolean(TRUE))
      [] right.type = "Integer" /\ right.int = 0 -> Ok(self, lg, ObjBoolean(TRUE))
      [] OTHER -> Ok(self, lg, ObjBoolean(FALSE))

eval_bang_prefix_expression(self, lg, right) ==
    CASE right.type = "Boolean" /\ ~right.bool -> Ok(self, lg, ObjBoolean(TRUE))
      [] right.type = "Null" -> Ok(self, lg, ObjBoolean(TRUE))
      [] OTHER -> Ok(self, lg, ObjBoolean(FALSE))

eval_minus_prefix_expression(self, lg, right) ==
    IF right.type = "Integer"
    THEN Ok(self, lg, ObjInteger(-right.int))
    ELSE Err(self, lg, "unknown operator: -" \o get_type(right))

eval_prefix_expression(self, lg, operator, right) ==
    CASE operator = "Bang"  -> eval_bang_prefix_expression(self, lg, right)
      [] operator = "Minus" -> eval_minus_prefix_expression(self, lg, right)
      [] OTHER -> Err(self, lg, "unknown operator: " \o TokenDisplay(operator)
                                \o get_type(right))

\* isize division truncates toward zero
truncating_div(left, right) ==
    LET l == IF left < 0 THEN -left ELSE left
        r == IF right < 0 THEN -right ELSE right
    IN  IF (left < 0) # (right < 0) THEN -(l \div r) ELSE l \div r

eval_integer_infix_expression(self, lg, left, operator, right) ==
    CASE operator = "Plus"     -> Ok(self, lg, ObjInteger(left + right))
      [] operator = "Minus"    -> Ok(self, lg, ObjInteger(left - right))
      [] operator = "Asterisk" -> Ok(self, lg, ObjInteger(left * right))
      [] operator = "Slash"    ->
            IF right = 0
            THEN Panic(self, lg, "attempt to divide by zero")
            ELSE Ok(self, lg, ObjInteger(truncating_div(left, right)))
      [] operator = "Lt"       -> Ok(self, lg, ObjBoolean(left < right))
      [] operator = "Gt"       -> Ok(self, lg, ObjBoolean(left > right))
      [] operator = "Eq"       -> Ok(self, lg, ObjBoolean(left = right))
      [] operator = "Ne"       -> Ok(self, lg, ObjBoolean(left # right))
      [] OTHER -> Err(self, lg, "unknown operator: Integer "
                                \o TokenDisplay(operator) \o " Integer")

eval_boolean_infix_expression(self, lg, left, operator, right) ==
    CASE operator = "Eq" -> Ok(self, lg, ObjBoolean(left = right))
      [] operator = "Ne" -> Ok(self, lg, ObjBoolean(left # right))
      [] OTHER -> Err(self, lg, "unknown operator: Boolean "
                                \o TokenDisplay(operator) \o " Boolean")

eval_string_infix_expression(self, lg, left, operator, right) ==
    CASE operator = "Plus" -> Ok(self, lg, ObjString(left \o right))
      [] operator = "Eq"   -> Ok(self, lg, ObjBoolean(left = right))
      [] operator = "Ne"   -> Ok(self, lg, ObjBoolean(left # right))
      [] OTHER -> Err(self, lg, "unknown operator: String "
                                \o TokenDisplay(operator) \o " String")

\* eval_infix_expression, had it reported two operands of one type that has
\* no infix operators as an unknown operator
eval_infix_expression_by_equal_type(self, lg, left, operator, right) ==
    CASE left.type = "Integer" /\ right.type = "Integer" ->
            eval_integer_infix_expression(self, lg, left.int, operator, right.int)
      [] left.type = "Boolean" /\ right.type = "Boolean" ->
            eval_boolean_infix_expression(self, lg, left.bool, operator, right.bool)
      [] left.type = "String" /\ right.type = "String" ->
            eval_string_infix_expression(self, lg, left.str, operator, right.str)
      [] left.type = right.type /\ left.type \notin {"Integer", "Boolean", "String"} ->
            Err(self, lg, "unknown operator: " \o get_type(left) \o " "
                          \o TokenDisplay(operator) \o " " \o get_type(right))
      [] OTHER -> Err(self, lg, "type mismatch: " \o get_type(left) \o " "
                                \o TokenDisplay(operator) \o " " \o get_type(right))

eval_infix_expression(self, lg, left, operator, right) ==
    CASE left.type = "Integer" /\ right.type = "Integer" ->
            eval_integer_infix_expression(self, lg, left.int, operator, right.int)
      [] left.type = "Boolean" /\ right.type = "Boolean" ->
            eval_boolean_infix_expression(self, lg, left.bool, operator, right.bool)
      [] left.type = "String" /\ right.type = "String" ->
            eval_string_infix_expression(self, lg, left.str, operator, right.str)
      [] OTHER -> Err(self, lg, "type mismatch: " \o get_type(left) \o " "
                                \o TokenDisplay(operator) \o " " \o get_type(right))

\* eval_identifier_expression, had it consulted the built-in table first
eval_identifier_expression_buildin_first(self, lg, name) ==
    LET found == get(self, name)
    IN  CASE name \in DOMAIN buildin_new -> Ok(self, lg, buildin_new[name])
          [] name \notin DOMAIN buildin_new /\ found.found -> Ok(self, lg, found.obj)
          [] OTHER -> Err(self, lg, found.msg)

eval_identifier_expression(self, lg, name) ==
    LET found == get(self, name)
    IN  CASE found.found -> Ok(self, lg, found.obj)
          [] ~found.found /\ name \in DOMAIN buildin_new ->
                Ok(self, lg, buildin_new[name])
          [] OTHER -> Err(self, lg, found.msg)

eval_function_expression(self, lg, parameters, body) ==
    Ok(self, lg, ObjFunction(parameters, body, self))

\* elements.len() - 1 in usize, then cast to isize: on the empty array the
\* subtraction overflows, which wraps to usize::MAX (cast: -1) when the
\* build does not check overflow
max_as_isize(length) == IF length = 0 THEN -1 ELSE length - 1

eval_array_index_expression(self, lg, elements, index) ==
    IF Len(elements) = 0 /\ overflow_checks
    THEN Panic(self, lg, "attempt to subtract with overflow")
    ELSE IF index < 0 \/ index > max_as_isize(Len(elements))
         THEN Ok(self, lg, ObjNull)
         ELSE Ok(self, lg, elements[index + 1])

eval_map_index_expression(self, lg, pairs, index) ==
    LET map_key == MapKeyFrom(index)
    IN  IF map_key = MapKeyUnusable
        THEN Err(self, lg, "unusable as map key: " \o get_type(index))
        ELSE IF map_key \in DOMAIN pairs
             THEN Ok(self, lg, pairs[map_key].value)
             ELSE Ok(self, lg, ObjNull)

eval_index_expression(self, lg, left, index) ==
    CASE left.type = "Array" /\ index.type = "Integer" ->
            eval_array_index_expression(self, lg, left.elements, index.int)
      [] left.type = "Map" ->
            eval_map_index_expression(self, lg, left.pairs, index)
      [] OTHER -> Err(self, lg, "index operator not supported: " \o get_type(left))


(***************************************************************************)
(* evaluator.rs: the recursive evaluation functions.  Each takes the       *)
(* Environment it runs on (self) and the log so far, and yields Ok, Err or *)
(* Panic with the Environment and the log it leaves.                       *)
(***************************************************************************)
\* the ? operator: anything but Ok leaves the function at once, Ok goes on
Try(result, then(_)) == IF result.kind # "Ok" THEN result ELSE then(result)

RECURSIVE eval_statement(_, _, _)
RECURSIVE eval_expression(_, _, _)
RECURSIVE block_loop(_, _, _, _, _)
RECURSIVE eval_expressions_loop(_, _, _, _, _)
RECURSIVE eval_map_loop(_, _, _, _, _)
RECURSIVE bind_parameters(_, _, _, _, _)
RECURSIVE apply_function(_, _, _, _)

\* the loop of eval_block_statement, had it not stopped at a Return
block_loop_through_return(self, lg, statements, i, result) ==
    IF i > Len(statements)
    THEN Ok(self, lg, result)
    ELSE Try(eval_statement(self, lg, statements[i]),
             LAMBDA r : block_loop(r.env, r.log, statements, i + 1, r.obj))

\* the loop of eval_block_statement from statement i on
block_loop(self, lg, statements, i, result) ==
    IF i > Len(statements)
    THEN Ok(self, lg, result)
    ELSE Try(eval_statement(self, lg, statements[i]),
             LAMBDA r : IF r.obj.type = "Return" THEN r
                        ELSE block_loop(r.env, r.log, statements, i + 1, r.obj))

\* eval_block_statement, had a block been evaluated on a scope of its own
\* that is dropped at its end
eval_block_statement_scoped(self, lg, statements) ==
    [block_loop(new_with_outer(self), lg, statements, 1, ObjDefault)
        EXCEPT !.env = self]

eval_block_statement(self, lg, statements) ==
    block_loop(self, lg, statements, 1, ObjDefault)

eval_return_statement(self, lg, expression) ==
    Try(eval_expression(self, lg, expression),
        LAMBDA r : Ok(r.env, r.log, ObjReturn(r.obj)))

\* eval_let_statement, had a function been bound with its own name set in
\* the Environment it captured
eval_let_statement_seen_by_itself(self, lg, name, object) ==
    IF name.expr = "Identifier"
    THEN Try(eval_expression(self, lg, object),
             LAMBDA r :
                 Try(set(r.env, r.log, name.name,
                         IF r.obj.type = "Function"
                         THEN [r.obj EXCEPT !.env.store = (name.name :> r.obj) @@ @]
                         ELSE r.obj),
                     LAMBDA s : Ok(s.env, s.log, ObjLet)))
    ELSE Err(self, lg, "unexpected error occurred in let binding")

eval_let_statement(self, lg, name, object) ==
    IF name.expr = "Identifier"
    THEN Try(eval_expression(self, lg, object),
             LAMBDA r : Try(set(r.env, r.log, name.name, r.obj),
                            LAMBDA s : Ok(s.env, s.log, ObjLet)))
    ELSE Err(self, lg, "unexpected error occurred in let binding")

eval_statement(self, lg, statement) ==
    LET lg1 == Append(lg, [ev |-> "stmt", stmt |-> statement])
    IN  CASE statement.stmt = "Expression" ->
                eval_expression(self, lg1, statement.value)
          [] statement.stmt = "Block" ->
                eval_block_statement(self, lg1, statement.statements)
          [] statement.stmt = "Return" ->
                eval_return_statement(self, lg1, statement.value)
          [] statement.stmt = "Let" ->
                eval_let_statement(self, lg1, statement.name, statement.value)

\* eval_if_expression, had it gone on to the alternative after the
\* consequence of a truthy condition
eval_if_expression_falling_through(self, lg, condition, consequence, alternative) ==
    CASE is_truthy(condition) /\ Len(alternative) = 0 ->
            eval_statement(self, lg, consequence)
      [] is_truthy(condition) /\ Len(alternative) > 0 ->
            Try(eval_statement(self, lg, consequence),
                LAMBDA r : eval_statement(r.env, r.log, alternative[1]))
      [] ~is_truthy(condition) /\ Len(alternative) > 0 ->
            eval_statement(self, lg, alternative[1])
      [] OTHER -> Ok(self, lg, ObjNull)

eval_if_expression(self, lg, condition, consequence, alternative) ==
    CASE is_truthy(condition) -> eval_statement(self, lg, consequence)
      [] ~is_truthy(condition) /\ Len(alternative) > 0 ->
            eval_statement(self, lg, alternative[1])
      [] OTHER -> Ok(self, lg, ObjNull)

\* the loop of eval_expressions from expression i on; Ok carries the vector
\* eval_expressions, had it gone through the expressions from the last to
\* the first
eval_expressions_loop_from_last(self, lg, expressions, i, result) ==
    IF i > Len(expressions)
    THEN [kind |-> "Ok", env |-> self, log |-> lg, objs |-> result]
    ELSE Try(eval_expression(self, lg, expressions[Len(expressions) - i + 1]),
             LAMBDA r : eval_expressions_loop(r.env, r.log, expressions, i + 1,
                                              <<r.obj>> \o result))

eval_expressions_loop(self, lg, expressions, i, result) ==
    IF i > Len(expressions)
    THEN [kind |-> "Ok", env |-> self, log |-> lg, objs |-> result]
    ELSE Try(eval_expression(self, lg, expressions[i]),
             LAMBDA r : eval_expressions_loop(r.env, r.log, expressions, i + 1,
                                              Append(result, r.obj)))

eval_expressions(self, lg, expressions) ==
    eval_expressions_loop(self, lg, expressions, 1, <<>>)

\* the end of an iteration of eval_map_expression: the key is projected
\* after the value was evaluated
insert_pair(key, value, pairs, i, map) ==
    IF MapKeyFrom(key.obj) = MapKeyUnusable
    THEN Err(value.env, value.log, "unusable as map key: " \o get_type(key.obj))
    ELSE eval_map_loop(value.env, value.log, pairs, i + 1,
                       (MapKeyFrom(key.obj) :> MapPair(key.obj, value.obj)) @@ map)

\* the loop of eval_map_expression from pair i on
eval_map_loop(self, lg, pairs, i, map) ==
    IF i > Len(pairs)
    THEN Ok(self, lg, ObjMap(map))
    ELSE Try(eval_expression(self, lg, pairs[i][1]),
             LAMBDA key :
                Try(eval_expression(key.env, key.log, pairs[i][2]),
                    LAMBDA value : insert_pair(key, value, pairs, i, map)))

eval_map_expression(self, lg, pairs) ==
    eval_map_loop(self, lg, pairs, 1, <<>>)

\* the loop of apply_function that binds parameter i and the following ones
bind_parameters(scope, lg, parameters, arguments, i) ==
    IF i > Len(parameters)
    THEN Ok(scope, lg, ObjDefault)
    ELSE IF parameters[i].expr = "Identifier"
         THEN Try(set(scope, lg, parameters[i].name, arguments[i]),
                  LAMBDA s : bind_parameters(s.env, s.log, parameters, arguments, i + 1))
         ELSE Err(scope, lg, "invalid argument index: " \o ToString(0))

\* the scope of a call is dropped when the call ends: the caller goes on
\* with its own Environment
back_to(self, result) == [result EXCEPT !.env = self]

\* the EvalResult of a host function, as the result of apply_function
of_buildin(self, lg, result) ==
    IF result.ok THEN Ok(self, lg, result.obj) ELSE Err(self, lg, result.msg)

\* apply_function, had the scope of the call been chained to the caller's
\* Environment instead of the closure's
apply_function_dynamic(self, lg, function, arguments) ==
    CASE function.type = "Function" ->
            IF ~check_arity(Len(function.parameters), Len(arguments)).ok
            THEN Err(self, lg, check_arity(Len(function.parameters), Len(arguments)).msg)
            ELSE back_to(self,
                    Try(bind_parameters(new_with_outer(self), lg,
                                        function.parameters, arguments, 1),
                        LAMBDA bound :
                            eval_statement(bound.env, bound.log, function.body)))
      [] function.type = "Buildin" ->
            of_buildin(self, lg, call_buildin(function.function, arguments))
      [] OTHER -> Err(self, lg, "not a function: " \o get_type(function))

\* apply_function, had it bound the parameters and run the body on the
\* caller's Environment without making a scope
apply_function_on_self(self, lg, function, arguments) ==
    CASE function.type = "Function" ->
            IF ~check_arity(Len(function.parameters), Len(arguments)).ok
            THEN Err(self, lg, check_arity(Len(function.parameters), Len(arguments)).msg)
            ELSE Try(bind_parameters(self, lg, function.parameters, arguments, 1),
                     LAMBDA bound :
                         eval_statement(bound.env, bound.log, function.body))
      [] function.type = "Buildin" ->
            of_buildin(self, lg, call_buildin(function.function, arguments))
      [] OTHER -> Err(self, lg, "not a function: " \o get_type(function))

apply_function(self, lg, function, arguments) ==
    CASE function.type = "Function" ->
            IF ~check_arity(Len(function.parameters), Len(arguments)).ok
            THEN Err(self, lg, check_arity(Len(function.parameters), Len(arguments)).msg)
            ELSE back_to(self,
                    Try(bind_parameters(new_with_outer(function.env), lg,
                                        function.parameters, arguments, 1),
                        LAMBDA bound :
                            eval_statement(bound.env, bound.log, function.body)))
      [] function.type = "Buildin" ->
            of_buildin(self, lg, call_buildin(function.function, arguments))
      [] OTHER -> Err(self, lg, "not a function: " \o get_type(function))

eval_expression(self, lg, expression) ==
    CASE expression.expr = "Integer" -> Ok(self, lg, ObjInteger(expression.int))
      [] expression.expr = "Boolean" -> Ok(self, lg, ObjBoolean(expression.bool))
      [] expression.expr = "String"  -> Ok(self, lg, ObjString(expression.str))
      [] expression.expr = "Prefix"  ->
            Try(eval_expression(self, lg, expression.right),
                LAMBDA right :
                    eval_prefix_expression(right.env, right.log,
                                           expression.operator, right.obj))
      [] expression.expr = "Infix" ->
            Try(eval_expression(self, lg, expression.left),
                LAMBDA left :
                    Try(eval_expression(left.env, left.log, expression.right),
                        LAMBDA right :
                            eval_infix_expression(right.env, right.log, left.obj,
                                                  expression.operator, right.obj)))
      [] expression.expr = "Grouped" -> eval_expression(self, lg, expression.inner)
      [] expression.expr = "If" ->
            Try(eval_expression(self, lg, expression.condition),
                LAMBDA condition :
                    eval_if_expression(condition.env, condition.log, condition.obj,
                                       expression.consequence, expression.alternative))
      [] expression.expr = "Identifier" ->
            eval_identifier_expression(self, lg, expression.name)
      [] expression.expr = "Function" ->
            eval_function_expression(self, lg, expression.parameters, expression.body)
      [] expression.expr = "Call" ->
            Try(eval_expression(self, lg, expression.function),
                LAMBDA function :
                    Try(eval_expressions(function.env, function.log,
                                         expression.arguments),
                        LAMBDA arguments :
                            apply_function(arguments.env, arguments.log,
                                           function.obj, arguments.objs)))
      [] expression.expr = "Array" ->
            Try(eval_expressions(self, lg, expression.elements),
                LAMBDA elements :
                    Ok(elements.env, elements.log, ObjArray(elements.objs)))
      [] expression.expr = "Index" ->
            Try(eval_expression(self, lg, expression.left),
                LAMBDA left :
                    Try(eval_expression(left.env, left.log, expression.index),
                        LAMBDA index :
                            eval_index_expression(index.env, index.log,
                                                  left.obj, index.obj)))
      [] expression.expr = "Map" -> eval_map_expression(self, lg, expression.pairs)

(***************************************************************************)
(* evaluator.rs: Environment::eval, the entry point, and its Response.  A  *)
(* panic is no Response: it ends the process.                              *)
(***************************************************************************)
Reply(object)  == [resp |-> "Reply", obj |-> object]
NoReply        == [resp |-> "NoReply"]
Error(message) == [resp |-> "Error", msg |-> message]
Aborted(message) == [resp |-> "Panic", msg |-> message]

RECURSIVE eval_loop(_, _, _, _, _)
\* the match of eval, had it dropped an error and gone on with the next
\* statement
eval_match_going_on(r, statements, i) ==
    CASE r.kind = "Ok" /\ r.obj.type = "Return" ->
            [env |-> r.env, log |-> r.log, response |-> Reply(r.obj.inner)]
      [] r.kind = "Ok" /\ r.obj.type # "Return" ->
            eval_loop(r.env, r.log, statements, i + 1, r.obj)
      [] r.kind = "Err" ->
            eval_loop(r.env, r.log, statements, i + 1, ObjNull)
      [] r.kind = "Panic" ->
            [env |-> r.env, log |-> r.log, response |-> Aborted(r.msg)]

\* the match of eval on the result r of statement i
eval_match(r, statements, i) ==
    CASE r.kind = "Ok" /\ r.obj.type = "Return" ->
            [env |-> r.env, log |-> r.log, response |-> Reply(r.obj.inner)]
      [] r.kind = "Ok" /\ r.obj.type # "Return" ->
            eval_loop(r.env, r.log, statements, i + 1, r.obj)
      [] r.kind = "Err" ->
            [env |-> r.env, log |-> r.log, response |-> Error(r.msg)]
      [] r.kind = "Panic" ->
            [env |-> r.env, log |-> r.log, response |-> Aborted(r.msg)]

\* the loop of eval from statement i on
eval_loop(self, lg, statements, i, result) ==
    IF i > Len(statements)
    THEN [env |-> self, log |-> lg,
          response |-> IF result.type = "Let" THEN NoReply ELSE Reply(result)]
    ELSE eval_match(eval_statement(self, lg, statements[i]), statements, i)

\* what eval yields, had an Error given the Environment back as it was
\* before the program
rolled_back(self, r) ==
    IF r.response.resp = "Error" THEN [r EXCEPT !.env = self] ELSE r

eval_rolling_back(self, prog) ==
    rolled_back(self, eval_loop(self, <<>>, prog, 1, ObjDefault))

eval(self, prog) == eval_loop(self, <<>>, prog, 1, ObjDefault)

(***************************************************************************)
(* ast.rs, token.rs: the order derive(Ord) gives tokens, expressions and   *)
(* statements, which is the order of the keys of the BTreeMap of a map     *)
(* literal: by variant in the order of declaration, then by the fields in  *)
(* the order of declaration; a Vec and a BTreeMap compare element by       *)
(* element, the shorter first when one is the start of the other.  A       *)
(* comparison is -1, 0 or 1.                                               *)
(***************************************************************************)
\* the strings of the lines of the model, in the order of their bytes
StringOrder ==
    <<"", "1", "2", "a", "b", "c", "d", "e", "f", "g", "h", "k", "len", "p",
      "push", "q", "r", "s", "t", "true", "x", "y", "z">>

Position(order, element) == CHOOSE i \in 1..Len(order) : order[i] = element

TokenOrder ==
    <<"Illegal", "Eof", "Identifier", "Integer", "String", "Assign", "Plus",
      "Minus", "Asterisk", "Slash", "Bang", "Lt", "Gt", "Eq", "Ne", "Comma",
      "Semicolon", "Colon", "LParen", "RParen", "LBrace", "RBrace",
      "LBracket", "RBracket", "Function", "Let", "True", "False", "If",
      "Else", "Return">>

ExpressionOrder ==
    <<"Identifier", "Integer", "String", "Prefix", "Infix", "Boolean",
      "Grouped", "If", "Function", "Call", "Array", "Index", "Map">>

StatementOrder == <<"Let", "Return", "Expression", "Block">>

cmp_integer(a, b) == IF a < b THEN 0 - 1 ELSE IF a > b THEN 1 ELSE 0

cmp_in(order, a, b) == cmp_integer(Position(order, a), Position(order, b))

cmp_boolean(a, b) == cmp_integer(IF a THEN 1 ELSE 0, IF b THEN 1 ELSE 0)

\* the comparison of two fields decides unless they are equal
or_else(field, following) == IF field # 0 THEN field ELSE following

RECURSIVE cmp_expression(_, _)
RECURSIVE cmp_statement(_, _)
RECURSIVE cmp_expressions(_, _, _)
RECURSIVE cmp_statements(_, _, _)
RECURSIVE cmp_pairs(_, _, _)

\* Vec<Expression> from element i on
cmp_expressions(a, b, i) ==
    IF i > Len(a) \/ i > Len(b)
    THEN cmp_integer(Len(a), Len(b))
    ELSE or_else(cmp_expression(a[i], b[i]), cmp_expressions(a, b, i + 1))

\* Vec<Statement>, and Option<Box<Statement>>, from element i on
cmp_statements(a, b, i) ==
    IF i > Len(a) \/ i > Len(b)
    THEN cmp_integer(Len(a), Len(b))
    ELSE or_else(cmp_statement(a[i], b[i]), cmp_statements(a, b, i + 1))

\* BTreeMap<Expression, Expression> from pair i on
cmp_pairs(a, b, i) ==
    IF i > Len(a) \/ i > Len(b)
    THEN cmp_integer(Len(a), Len(b))
    ELSE or_else(cmp_expression(a[i][1], b[i][1]),
         or_else(cmp_expression(a[i][2], b[i][2]), cmp_pairs(a, b, i + 1)))

cmp_statement(a, b) ==
    IF a.stmt # b.stmt THEN cmp_in(StatementOrder, a.stmt, b.stmt)
    ELSE CASE a.stmt = "Let" ->
                or_else(cmp_expression(a.name, b.name), cmp_expression(a.value, b.value))
           [] a.stmt \in {"Return", "Expression"} -> cmp_expression(a.value, b.value)
           [] a.stmt = "Block" -> cmp_statements(a.statements, b.statements, 1)

cmp_expression(a, b) ==
    IF a.expr # b.expr THEN cmp_in(ExpressionOrder, a.expr, b.expr)
    ELSE CASE a.expr = "Identifier" -> cmp_in(StringOrder, a.name, b.name)
           [] a.expr = "Integer" -> cmp_integer(a.int, b.int)
           [] a.expr = "String"  -> cmp_in(StringOrder, a.str, b.str)
           [] a.expr = "Prefix"  ->
                or_else(cmp_in(TokenOrder, a.operator, b.operator),
                        cmp_expression(a.right, b.right))
           [] a.expr = "Infix"   ->
                or_else(cmp_expression(a.left, b.left),
                or_else(cmp_in(TokenOrder, a.operator, b.operator),
                        cmp_expression(a.right, b.right)))
           [] a.expr = "Boolean" -> cmp_boolean(a.bool, b.bool)
           [] a.expr = "Grouped" -> cmp_expression(a.inner, b.inner)
           [] a.expr = "If"      ->
                or_else(cmp_expression(a.condition, b.condition),
                or_else(cmp_statement(a.consequence, b.consequence),
                        cmp_statements(a.alternative, b.alternative, 1)))
           [] a.expr = "Function" ->
                or_else(cmp_expressions(a.parameters, b.parameters, 1),
                        cmp_statement(a.body, b.body))
           [] a.expr = "Call"    ->
                or_else(cmp_expression(a.function, b.function),
                        cmp_expressions(a.arguments, b.arguments, 1))
           [] a.expr = "Array"   -> cmp_expressions(a.elements, b.elements, 1)
           [] a.expr = "Index"   ->
                or_else(cmp_expression(a.left, b.left), cmp_expression(a.index, b.index))
           [] a.expr = "Map"     -> cmp_pairs(a.pairs, b.pairs, 1)

\* BTreeMap::insert on the pairs in the order of their keys: the value of
\* an equal key is replaced
\* insert, had the map kept its pairs in the order they were inserted
BTreeMap_insert_at_end(pairs, key, value) ==
    SelectSeq(pairs, LAMBDA pair : cmp_expression(pair[1], key) # 0)
    \o <<<<key, value>>>>

BTreeMap_insert(pairs, key, value) ==
    LET below == SelectSeq(pairs, LAMBDA pair : cmp_expression(pair[1], key) < 0)
        above == SelectSeq(pairs, LAMBDA pair : cmp_expression(pair[1], key) > 0)
    IN  below \o <<<<key, value>>>> \o above

(***************************************************************************)
(* lexer.rs: Lexer.  A character is a string of length one; NUL stands for *)
(* the character 0 that read_char gives past the end of the input, and     *)
(* that the input may also hold.  Positions count from 0 as in the source. *)
(***************************************************************************)
NUL == "NUL"

Letters ==
    {"a", "b", "c", "d", "e", "f", "g", "h", "i", "k", "l", "n", "o", "p", "q",
     "r", "s", "t", "u", "x", "y", "z"}

DecimalDigits == <<"0", "1", "2", "3", "4", "5", "6", "7", "8", "9">>

Whitespace == {" ", "\t", "\n", "\r"}

read_char(l) ==
    [l EXCEPT !.ch = IF l.read_position >= Len(l.input)
                     THEN NUL
                     ELSE l.input[l.read_position + 1],
              !.position = l.read_position,
              !.read_position = l.read_position + 1]

Lexer_new(input) ==
    read_char([input |-> input, position |-> 0, read_position |-> 0, ch |-> NUL])

peek_char(l) ==
    IF l.read_position >= Len(l.input) THEN NUL ELSE l.input[l.read_position + 1]

is_letter(l) == l.ch \in Letters

is_digit(l) == \E d \in 1..10 : DecimalDigits[d] = l.ch

RECURSIVE skip_whitespace(_)
skip_whitespace(l) ==
    IF l.ch \in Whitespace THEN skip_whitespace(read_char(l)) ELSE l

RECURSIVE from_iter(_)
\* String::from_iter of a slice of the input
from_iter(chars) ==
    IF chars = <<>> THEN "" ELSE Head(chars) \o from_iter(Tail(chars))

\* input[start..position]
slice(l, start) == SubSeq(l.input, start + 1, l.position)

\* a token with the Lexer the call leaves behind
Lexed(l, token) == [l |-> l, token |-> token]

RECURSIVE while_letter(_)
while_letter(l) == IF is_letter(l) THEN while_letter(read_char(l)) ELSE l

keyword(l, identifier) ==
    CASE identifier = "fn"     -> Lexed(l, Token("Function"))
      [] identifier = "let"    -> Lexed(l, Token("Let"))
      [] identifier = "true"   -> Lexed(l, Token("True"))
      [] identifier = "false"  -> Lexed(l, Token("False"))
      [] identifier = "if"     -> Lexed(l, Token("If"))
      [] identifier = "else"   -> Lexed(l, Token("Else"))
      [] identifier = "return" -> Lexed(l, Token("Return"))
      [] OTHER                 -> Lexed(l, TokIdentifier(identifier))

read_identifier(l) ==
    keyword(while_letter(l), from_iter(SubSeq(l.input, l.position + 1,
                                              while_letter(l).position)))

RECURSIVE while_digit(_)
while_digit(l) == IF is_digit(l) THEN while_digit(read_char(l)) ELSE l

RECURSIVE parse_digits(_, _)
\* str::parse of a run of digits, from the value of the digits before it
parse_digits(digits, value) ==
    IF digits = <<>> THEN value
    ELSE parse_digits(Tail(digits),
                      10 * value + (CHOOSE d \in 1..10 : DecimalDigits[d] = Head(digits)) - 1)

\* the longest run of digits that is an isize whatever the digits are
isize_digits == 18

\* a run of more digits than an isize has does not parse; the runs of the
\* model are shorter
read_int(l) ==
    IF while_digit(l).position - l.position > isize_digits
    THEN Lexed(while_digit(l), TokIllegal(l.input[l.position + 1]))
    ELSE Lexed(while_digit(l),
               TokInteger(parse_digits(SubSeq(l.input, l.position + 1,
                                              while_digit(l).position), 0)))

RECURSIVE while_string(_)
while_string(l) ==
    IF l.ch # "\"" /\ l.ch # NUL THEN while_string(read_char(l)) ELSE l

read_string(l) ==
    Lexed(while_string(read_char(l)),
          TokString(from_iter(SubSeq(l.input, l.position + 2,
                                     while_string(read_char(l)).position))))

\* the characters that are a token by themselves
Punctuation ==
    ("+" :> "Plus") @@ ("-" :> "Minus") @@ ("*" :> "Asterisk") @@ ("/" :> "Slash")
    @@ ("<" :> "Lt") @@ (">" :> "Gt") @@ ("," :> "Comma") @@ (";" :> "Semicolon")
    @@ (":" :> "Colon") @@ ("(" :> "LParen") @@ (")" :> "RParen")
    @@ ("{" :> "LBrace") @@ ("}" :> "RBrace") @@ ("[" :> "LBracket")
    @@ ("]" :> "RBracket")

\* the match of next_token on the current character, for the arms that end
\* in the read_char after the match
matched(l) ==
    CASE l.ch = "=" -> IF peek_char(l) = "="
                       THEN Lexed(read_char(l), Token("Eq"))
                       ELSE Lexed(l, Token("Assign"))
      [] l.ch = "!" -> IF peek_char(l) = "="
                       THEN Lexed(read_char(l), Token("Ne"))
                       ELSE Lexed(l, Token("Bang"))
      [] l.ch \in DOMAIN Punctuation -> Lexed(l, Token(Punctuation[l.ch]))
      [] l.ch = NUL  -> Lexed(l, Eof)
      [] l.ch = "\"" -> read_string(l)
      [] OTHER       -> Lexed(l, TokIllegal(l.ch))

\* next_token after skip_whitespace: the last arm of the match returns from
\* read_identifier and read_int, the others go on to the read_char
after_whitespace(l) ==
    CASE l.ch \in {"=", "!", NUL, "\""} \cup DOMAIN Punctuation ->
            Lexed(read_char(matched(l).l), matched(l).token)
      [] is_letter(l) -> read_identifier(l)
      [] is_digit(l)  -> read_int(l)
      [] OTHER        -> Lexed(read_char(matched(l).l), matched(l).token)

Lexer_next_token(l) == after_whitespace(skip_whitespace(l))

RECURSIVE Lexing(_, _)
\* the tokens next_token gives before the first end token, r being what the
\* last call gave
Lexing(r, tokens) ==
    IF r.token = Eof THEN tokens
    ELSE Lexing(Lexer_next_token(r.l), Append(tokens, r.token))

\* the tokens Parser::new and the parsing functions take from a Lexer on
\* input
Tokens(input) == Lexing(Lexer_next_token(Lexer_new(input)), <<>>)

(***************************************************************************)
(* ast.rs: Display for Statement and for Expression.  What is written is   *)
(* the sequence of its characters.                                         *)
(***************************************************************************)
\* the characters of the texts of more than one character
Spelled ==
    [text \in {"==", "!=", "fn", "if", "let", "len", "add", "true", "false",
               "else", "return", "a b", "1 +", "xy"} |->
        CASE text = "==" -> <<"=", "=">>
          [] text = "!=" -> <<"!", "=">>
          [] text = "fn" -> <<"f", "n">>
          [] text = "if" -> <<"i", "f">>
          [] text = "let" -> <<"l", "e", "t">>
          [] text = "len" -> <<"l", "e", "n">>
          [] text = "add" -> <<"a", "d", "d">>
          [] text = "true" -> <<"t", "r", "u", "e">>
          [] text = "false" -> <<"f", "a", "l", "s", "e">>
          [] text = "else" -> <<"e", "l", "s", "e">>
          [] text = "return" -> <<"r", "e", "t", "u", "r", "n">>
          [] text = "a b" -> <<"a", " ", "b">>
          [] text = "1 +" -> <<"1", " ", "+">>
          [] text = "xy" -> <<"x", "y">>]

\* the texts of one character
Single ==
    Letters \cup {DecimalDigits[d] : d \in 1..10} \cup DOMAIN Punctuation
    \cup {"=", "!", " ", "\"", "@", "#"}

\* str::chars, of the texts the model has
chars(text) ==
    CASE text = "" -> <<>>
      [] text \in DOMAIN Spelled -> Spelled[text]
      [] text \in Single -> <<text>>

RECURSIVE decimal(_)
\* Display for isize
decimal(value) ==
    CASE value < 0  -> <<"-">> \o decimal(0 - value)
      [] value < 10 -> <<DecimalDigits[value + 1]>>
      [] OTHER      -> decimal(value \div 10) \o <<DecimalDigits[(value % 10) + 1]>>

RECURSIVE fmt_expression(_)
RECURSIVE fmt_statement(_)
RECURSIVE fmt_block(_, _)
RECURSIVE join(_, _)
RECURSIVE join_pairs(_, _)

\* Display for Statement::Block: the statements one after the other
fmt_block(statements, i) ==
    IF i > Len(statements) THEN <<>>
    ELSE fmt_statement(statements[i]) \o fmt_block(statements, i + 1)

fmt_statement(statement) ==
    CASE statement.stmt = "Let" ->
            chars("let") \o <<" ">> \o fmt_expression(statement.name)
            \o <<" ", "=", " ">> \o fmt_expression(statement.value) \o <<";">>
      [] statement.stmt = "Return" ->
            chars("return") \o <<" ">> \o fmt_expression(statement.value) \o <<";">>
      [] statement.stmt = "Expression" -> fmt_expression(statement.value)
      [] statement.stmt = "Block" -> fmt_block(statement.statements, 1)

\* to_string of every expression, joined by ", "
join(expressions, i) ==
    IF i > Len(expressions) THEN <<>>
    ELSE fmt_expression(expressions[i])
         \o (IF i < Len(expressions) THEN <<",", " ">> ELSE <<>>)
         \o join(expressions, i + 1)

\* format!("{}: {}", key, value) of every pair, joined by ", "
join_pairs(pairs, i) ==
    IF i > Len(pairs) THEN <<>>
    ELSE fmt_expression(pairs[i][1]) \o <<":", " ">> \o fmt_expression(pairs[i][2])
         \o (IF i < Len(pairs) THEN <<",", " ">> ELSE <<>>)
         \o join_pairs(pairs, i + 1)

fmt_expression(e) ==
    CASE e.expr = "Identifier" -> chars(e.name)
      [] e.expr = "Integer"    -> decimal(e.int)
      [] e.expr = "String"     -> chars(e.str)
      [] e.expr = "Prefix"     ->
            <<"(">> \o chars(TokenDisplay(e.operator)) \o fmt_expression(e.right)
            \o <<")">>
      [] e.expr = "Infix"      ->
            <<"(">> \o fmt_expression(e.left) \o <<" ">>
            \o chars(TokenDisplay(e.operator)) \o <<" ">>
            \o fmt_expression(e.right) \o <<")">>
      [] e.expr = "Boolean"    -> IF e.bool THEN chars("true") ELSE chars("false")
      [] e.expr = "Grouped"    -> fmt_expression(e.inner)
      [] e.expr = "If"         ->
            IF e.alternative # <<>>
            THEN chars("if") \o <<" ">> \o fmt_expression(e.condition)
                 \o <<" ", "{", " ">> \o fmt_statement(e.consequence)
                 \o <<" ", "}", " ">> \o chars("else") \o <<" ", "{", " ">>
                 \o fmt_statement(e.alternative[1]) \o <<" ", "}">>
            ELSE chars("if") \o <<" ">> \o fmt_expression(e.condition) \o <<" ">>
                 \o fmt_statement(e.consequence)
      [] e.expr = "Function"   ->
            chars("fn") \o <<" ", "(">> \o join(e.parameters, 1)
            \o <<")", " ", "{", " ">> \o fmt_statement(e.body) \o <<" ", "}">>
      [] e.expr = "Call"       ->
            fmt_expression(e.function) \o <<"(">> \o join(e.arguments, 1) \o <<")">>
      [] e.expr = "Array"      -> <<"[">> \o join(e.elements, 1) \o <<"]">>
      [] e.expr = "Index"      ->
            <<"(">> \o fmt_expression(e.left) \o <<"[">> \o fmt_expression(e.index)
            \o <<"]", ")">>
      [] e.expr = "Map"        -> <<"{">> \o join_pairs(e.pairs, 1) \o <<"}">>

(***************************************************************************)
(* parser.rs: Parser.  The lexer is the sequence of the tokens it will     *)
(* give, followed by Eof for ever; read counts the tokens taken from it.   *)
(* failed is a record of the expectations that failed, attempts a record   *)
(* of the statements parse_program tried; neither is read by the parser.   *)
(***************************************************************************)
Lowest      == 0
Equals      == 1
LessGreater == 2
Sum         == 3
Product     == 4
Prefix      == 5
Call        == 6
Index       == 7

PrecedenceFrom_sum_over_product(token) ==
    CASE token.tok \in {"Eq", "Ne"}          -> Equals
      [] token.tok \in {"Lt", "Gt"}          -> LessGreater
      [] token.tok \in {"Plus", "Minus"}     -> Product
      [] token.tok \in {"Slash", "Asterisk"} -> Sum
      [] token.tok = "LParen"                -> Call
      [] token.tok = "LBracket"              -> Index
      [] OTHER                               -> Lowest

PrecedenceFrom(token) ==
    CASE token.tok \in {"Eq", "Ne"}          -> Equals
      [] token.tok \in {"Lt", "Gt"}          -> LessGreater
      [] token.tok \in {"Plus", "Minus"}     -> Sum
      [] token.tok \in {"Slash", "Asterisk"} -> Product
      [] token.tok = "LParen"                -> Call
      [] token.tok = "LBracket"              -> Index
      [] OTHER                               -> Lowest

lexer_next_token(input, read) == IF read < Len(input) THEN input[read + 1] ELSE Eof

next_token(p) ==
    [p EXCEPT !.current_token = p.peek_token,
              !.peek_token = lexer_next_token(p.input, p.read),
              !.read = p.read + 1]

Parser_new(input) ==
    next_token(next_token([input |-> input, read |-> 0,
                           current_token |-> Eof, peek_token |-> Eof,
                           errors |-> <<>>, failed |-> <<>>, attempts |-> <<>>]))

exists_errors(p) == Len(p.errors) > 0

get_errors(p) == p.errors

\* Result<_, ParseError> with the Parser the call leaves behind; Overflow is
\* the end of the process on an exhausted stack, Spin a loop without end
ParseOk(p, value)    == [kind |-> "Ok", p |-> p, val |-> value]
ParseErr(p, message) == [kind |-> "Err", p |-> p, msg |-> message]
ParseOverflow(p)     == [kind |-> "Overflow", p |-> p]
ParseSpin(p)         == [kind |-> "Spin", p |-> p]

same_token(held, token) ==
    CASE held.tok = "Identifier" /\ token.tok = "Identifier" -> TRUE
      [] held.tok = "Integer" /\ token.tok = "Integer"       -> TRUE
      [] OTHER                                               -> held = token

is_current_token(p, token) == same_token(p.current_token, token)

is_peek_token(p, token) == same_token(p.peek_token, token)

\* format! of the diagnostic of a failed expectation
expected_message(p, want, got) ==
    IF want.returns /\ got.returns
    THEN ParseErr(p, "expected next token to be " \o want.text
                     \o ", got " \o got.text \o " instead")
    ELSE ParseOverflow(p)

Failed(p, want) ==
    [p EXCEPT !.failed = Append(@, [expected |-> want, actual |-> p.peek_token])]

expect_peek_identifier(p) ==
    IF p.peek_token.tok = "Identifier"
    THEN ParseOk(next_token(p), p.peek_token.name)
    ELSE expected_message(Failed(p, "Ident"), Shown("Ident"), Display(p.peek_token))

expect_peek(p, token) ==
    IF is_peek_token(p, token)
    THEN ParseOk(next_token(p), <<>>)
    ELSE expected_message(Failed(p, TokenDisplay(token.tok)),
                          Display(token), Display(p.peek_token))

\* format! of the diagnostic for a token no expression starts with
no_prefix_message(p, shown) ==
    IF shown.returns
    THEN ParseErr(p, "no prefix parse function for " \o shown.text \o " found")
    ELSE ParseOverflow(p)

\* the loops that pass the semicolons after a statement
RECURSIVE skip_semicolons(_)
skip_semicolons(p) ==
    IF is_peek_token(p, Token("Semicolon")) THEN skip_semicolons(next_token(p)) ELSE p

(***************************************************************************)
(* parser.rs: the parsing functions.  A function takes the Parser as it is *)
(* (self) and yields its result with the Parser as it leaves it.           *)
(***************************************************************************)
RECURSIVE parse_statement(_)
RECURSIVE parse_expression(_, _)
RECURSIVE infix_loop(_, _, _)
RECURSIVE block_statements(_, _)
RECURSIVE parameters_loop(_, _)
RECURSIVE expressions_loop(_, _)
RECURSIVE map_loop(_, _)

parse_let_statement(p) ==
    Try(expect_peek_identifier(p),
        LAMBDA name :
            Try(expect_peek(name.p, Token("Assign")),
                LAMBDA assign :
                    Try(parse_expression(next_token(assign.p), Lowest),
                        LAMBDA value :
                            ParseOk(skip_semicolons(value.p),
                                    StmtLet(ExprIdentifier(name.val), value.val)))))

parse_return_statement(p) ==
    Try(parse_expression(next_token(p), Lowest),
        LAMBDA expression :
            ParseOk(skip_semicolons(expression.p), StmtReturn(expression.val)))

parse_expression_statement(p) ==
    Try(parse_expression(p, Lowest),
        LAMBDA expression :
            ParseOk(skip_semicolons(expression.p), StmtExpression(expression.val)))

parse_statement(p) ==
    CASE p.current_token.tok = "Let"    -> parse_let_statement(p)
      [] p.current_token.tok = "Return" -> parse_return_statement(p)
      [] OTHER                          -> parse_expression_statement(p)

\* the loop of parse_block_statement
block_statements(p, statements) ==
    IF ~is_current_token(p, Token("RBrace")) /\ ~is_current_token(p, Eof)
    THEN Try(parse_statement(p),
             LAMBDA statement :
                 block_statements(next_token(statement.p),
                                  Append(statements, statement.val)))
    ELSE ParseOk(p, StmtBlock(statements))

parse_block_statement(p) == block_statements(next_token(p), <<>>)

parse_prefix_expression(p) ==
    Try(parse_expression(next_token(p), Prefix),
        LAMBDA right : ParseOk(right.p, ExprPrefix(p.current_token.tok, right.val)))

parse_infix_expression(p, left) ==
    Try(parse_expression(next_token(p), PrecedenceFrom(p.current_token)),
        LAMBDA right :
            ParseOk(right.p, ExprInfix(left, p.current_token.tok, right.val)))

parse_grouped_expression(p) ==
    Try(parse_expression(next_token(p), Lowest),
        LAMBDA grouped :
            Try(expect_peek(grouped.p, Token("RParen")),
                LAMBDA closed : ParseOk(closed.p, ExprGrouped(grouped.val))))

\* the alternative field of the If expression
parse_alternative(p, condition, consequence) ==
    IF is_peek_token(p, Token("Else"))
    THEN Try(expect_peek(next_token(p), Token("LBrace")),
             LAMBDA opened :
                 Try(parse_block_statement(opened.p),
                     LAMBDA alternative :
                         ParseOk(alternative.p,
                                 ExprIf(condition, consequence, <<alternative.val>>))))
    ELSE ParseOk(p, ExprIf(condition, consequence, <<>>))

parse_if_expression(p) ==
    Try(expect_peek(p, Token("LParen")),
        LAMBDA opened :
            Try(parse_expression(next_token(opened.p), Lowest),
                LAMBDA condition :
                    Try(expect_peek(condition.p, Token("RParen")),
                        LAMBDA closed :
                            Try(expect_peek(closed.p, Token("LBrace")),
                                LAMBDA braced :
                                    Try(parse_block_statement(braced.p),
                                        LAMBDA consequence :
                                            parse_alternative(consequence.p,
                                                condition.val, consequence.val))))))

\* the loop of parse_function_parameters
parameters_loop(p, parameters) ==
    IF is_peek_token(p, Token("Comma"))
    THEN Try(expect_peek_identifier(next_token(p)),
             LAMBDA name :
                 parameters_loop(name.p, Append(parameters, ExprIdentifier(name.val))))
    ELSE ParseOk(p, parameters)

parse_function_parameters(p) ==
    IF is_peek_token(p, Token("RParen"))
    THEN ParseOk(next_token(p), <<>>)
    ELSE Try(expect_peek_identifier(p),
             LAMBDA name :
                 Try(parameters_loop(name.p, <<ExprIdentifier(name.val)>>),
                     LAMBDA parameters :
                         Try(expect_peek(parameters.p, Token("RParen")),
                             LAMBDA closed : ParseOk(closed.p, parameters.val))))

parse_function_expression(p) ==
    Try(expect_peek(p, Token("LParen")),
        LAMBDA opened :
            Try(parse_function_parameters(opened.p),
                LAMBDA parameters :
                    Try(expect_peek(parameters.p, Token("LBrace")),
                        LAMBDA braced :
                            Try(parse_block_statement(braced.p),
                                LAMBDA body :
                                    ParseOk(body.p,
                                            ExprFunction(parameters.val, body.val))))))

\* the loop of parse_expressions
expressions_loop(p, arguments) ==
    IF is_peek_token(p, Token("Comma"))
    THEN Try(parse_expression(next_token(next_token(p)), Lowest),
             LAMBDA argument :
                 expressions_loop(argument.p, Append(arguments, argument.val)))
    ELSE ParseOk(p, arguments)

parse_expressions(p, token) ==
    IF is_peek_token(p, token)
    THEN ParseOk(next_token(p), <<>>)
    ELSE Try(parse_expression(next_token(p), Lowest),
             LAMBDA argument :
                 Try(expressions_loop(argument.p, <<argument.val>>),
                     LAMBDA arguments :
                         Try(expect_peek(arguments.p, token),
                             LAMBDA closed : ParseOk(closed.p, arguments.val))))

parse_call_expression(p, function) ==
    Try(parse_expressions(p, Token("RParen")),
        LAMBDA arguments : ParseOk(arguments.p, ExprCall(function, arguments.val)))

parse_array_expression(p) ==
    Try(parse_expressions(p, Token("RBracket")),
        LAMBDA arguments : ParseOk(arguments.p, ExprArray(arguments.val)))

parse_index_expression(p, left) ==
    Try(parse_expression(next_token(p), Lowest),
        LAMBDA index :
            Try(expect_peek(index.p, Token("RBracket")),
                LAMBDA closed : ParseOk(closed.p, ExprIndex(left, index.val))))

\* the end of an iteration of the loop of parse_map_expression
insert_parsed(key, value, pairs) ==
    IF ~is_peek_token(value.p, Token("RBrace"))
    THEN Try(expect_peek(value.p, Token("Comma")),
             LAMBDA comma :
                 map_loop(comma.p, BTreeMap_insert(pairs, key.val, value.val)))
    ELSE map_loop(value.p, BTreeMap_insert(pairs, key.val, value.val))

\* the loop of parse_map_expression, and what follows it
map_loop(p, pairs) ==
    IF ~is_peek_token(p, Token("RBrace"))
    THEN Try(parse_expression(next_token(p), Lowest),
             LAMBDA key :
                 Try(expect_peek(key.p, Token("Colon")),
                     LAMBDA colon :
                         Try(parse_expression(next_token(colon.p), Lowest),
                             LAMBDA value : insert_parsed(key, value, pairs))))
    ELSE Try(expect_peek(p, Token("RBrace")),
             LAMBDA closed : ParseOk(closed.p, ExprMap(pairs)))

parse_map_expression(p) == map_loop(p, <<>>)

\* the first match of parse_expression: the expression the current token
\* starts
expression_start(p) ==
    CASE p.current_token.tok = "Identifier" ->
            ParseOk(p, ExprIdentifier(p.current_token.name))
      [] p.current_token.tok = "Integer" -> ParseOk(p, ExprInteger(p.current_token.int))
      [] p.current_token.tok = "String"  -> ParseOk(p, ExprString(p.current_token.str))
      [] p.current_token.tok \in {"Bang", "Minus"} -> parse_prefix_expression(p)
      [] p.current_token.tok = "True"     -> ParseOk(p, ExprBoolean(TRUE))
      [] p.current_token.tok = "False"    -> ParseOk(p, ExprBoolean(FALSE))
      [] p.current_token.tok = "LParen"   -> parse_grouped_expression(p)
      [] p.current_token.tok = "If"       -> parse_if_expression(p)
      [] p.current_token.tok = "Function" -> parse_function_expression(p)
      [] p.current_token.tok = "LBracket" -> parse_array_expression(p)
      [] p.current_token.tok = "LBrace"   -> parse_map_expression(p)
      [] p.current_token.tok = "Illegal"  ->
            ParseErr(p, "illegal char found: " \o p.current_token.ch)
      [] OTHER -> no_prefix_message(p, Display(p.current_token))

\* the while loop of parse_expression; its last arm leaves the expression
\* and the tokens as they are, so the loop would go round for ever
infix_loop(p, precedence, expression) ==
    IF ~is_peek_token(p, Token("Semicolon")) /\ precedence < PrecedenceFrom(p.peek_token)
    THEN CASE p.peek_token.tok = "LParen" ->
                Try(parse_call_expression(next_token(p), expression),
                    LAMBDA call : infix_loop(call.p, precedence, call.val))
           [] p.peek_token.tok \in {"Plus", "Minus", "Asterisk", "Slash",
                                    "Lt", "Gt", "Eq", "Ne"} ->
                Try(parse_infix_expression(next_token(p), expression),
                    LAMBDA infix : infix_loop(infix.p, precedence, infix.val))
           [] p.peek_token.tok = "LBracket" ->
                Try(parse_index_expression(next_token(p), expression),
                    LAMBDA indexed : infix_loop(indexed.p, precedence, indexed.val))
           [] p.peek_token.tok = "Illegal" ->
                ParseErr(p, "illegal char found: " \o p.peek_token.ch)
           [] OTHER -> ParseSpin(p)
    ELSE ParseOk(p, expression)

parse_expression(p, precedence) ==
    Try(expression_start(p),
        LAMBDA expression : infix_loop(expression.p, precedence, expression.val))

\* the statement parse_program tried at the token numbered from, the number
\* of the token it was at when the attempt ended, and the statement made
Attempted(p, from, made) ==
    [p EXCEPT !.attempts = Append(@, [from |-> from, upto |-> p.read - 1,
                                      made |-> made])]

RECURSIVE program_loop(_, _)
\* the match of parse_program on the result of parse_statement
program_match(r, from, statements) ==
    CASE r.kind = "Ok" ->
            program_loop(next_token(Attempted(r.p, from, <<r.val>>)),
                         Append(statements, r.val))
      [] r.kind = "Err" ->
            program_loop(next_token(Attempted([r.p EXCEPT !.errors = Append(@, r.msg)],
                                              from, <<>>)),
                         statements)
      [] OTHER -> [kind |-> r.kind, p |-> r.p, val |-> statements]

\* the loop of parse_program
program_loop(p, statements) ==
    IF ~is_current_token(p, Eof)
    THEN program_match(parse_statement(p), p.read - 1, statements)
    ELSE ParseOk(p, statements)

parse_program(p) == program_loop(p, <<>>)

(***************************************************************************)
(* The lines given to the loop: programs as the parser builds them         *)
(* (a function body and an if branch are always a Block, a parameter is    *)
(* always an Identifier, -1 is the prefix expression (-1)).                *)
(***************************************************************************)
Id(name) == ExprIdentifier(name)
Num(value) == ExprInteger(value)
Fn(parameters, statements) ==
    ExprFunction([i \in 1..Len(parameters) |-> Id(parameters[i])],
                 StmtBlock(statements))
CallLine(function, arguments) == <<StmtExpression(ExprCall(function, arguments))>>
LetLine(name, value) == <<StmtLet(Id(name), value)>>

\* fn() { x; }
Reader(name) == Fn(<<>>, <<StmtExpression(Id(name))>>)
\* fn(x) { f(); }
Caller == Fn(<<"x">>, <<StmtExpression(ExprCall(Id("f"), <<>>))>>)
\* fn() { return x; }
Returner == Fn(<<>>, <<StmtReturn(Id("x"))>>)
\* fn(a) { if (a) { let x = 3; } x; }
Shadower ==
    Fn(<<"a">>,
       <<StmtExpression(ExprIf(Id("a"),
                               StmtBlock(<<StmtLet(Id("x"), Num(3))>>), <<>>)),
         StmtExpression(Id("x"))>>)
\* fn(p) { n; }(9)
Probe(p, n) == CallLine(Fn(<<p>>, <<StmtExpression(Id(n))>>), <<Num(9)>>)
\* fn(p) { fn(q) { n; }(8); }(9)
Nested(p, q, n) ==
    CallLine(Fn(<<p>>, <<StmtExpression(
                 ExprCall(Fn(<<q>>, <<StmtExpression(Id(n))>>), <<Num(8)>>))>>),
             <<Num(9)>>)
\* fn() { let x = 1; let k = fn() { x; }; let x = 2; k(); }()
Rebinder ==
    CallLine(Fn(<<>>, <<StmtLet(Id("x"), Num(1)),
                       StmtLet(Id("k"), Fn(<<>>, <<StmtExpression(Id("x"))>>)),
                       StmtLet(Id("x"), Num(2)),
                       StmtExpression(ExprCall(Id("k"), <<>>))>>),
             <<>>)
\* fn(a, b) { b; } applied to the integers 1..m
Pair(m) == CallLine(Fn(<<"a", "b">>, <<StmtExpression(Id("b"))>>),
                    [i \in 1..m |-> Num(i)])

LetPrograms ==
    {LetLine("x", Num(v)) : v \in {1, 2}}
    \cup {LetLine("f", Reader("x")), LetLine("g", Caller),
          LetLine("r", Returner), LetLine("h", Shadower),
          LetLine("len", Num(6)),
          \* let d = fn() {}();
          LetLine("d", ExprCall(Fn(<<>>, <<>>), <<>>)),
          \* let d = if (true) { let x = 4; };
          LetLine("d", ExprIf(ExprBoolean(TRUE),
                              StmtBlock(<<StmtLet(Id("x"), Num(4))>>), <<>>))}

CallPrograms ==
    {CallLine(Id("f"), <<>>), CallLine(Id("f"), <<Num(1)>>),
     CallLine(Id("g"), <<Num(5)>>),
     CallLine(Id("h"), <<>>)}
    \cup {CallLine(Id("h"), <<ExprBoolean(b)>>) : b \in BOOLEAN}
    \cup {Pair(m) : m \in 1..3}
    \cup {Probe(p, n) : p \in {"x", "len"}, n \in {"x", "len", "y"}}
    \cup {Nested(pq[1], pq[2], n) :
             pq \in {<<"x", "len">>, <<"len", "x">>}, n \in {"x", "len", "y"}}
    \cup {Rebinder}

\* r(); 7;
CallThenSeven ==
    <<StmtExpression(ExprCall(Id("r"), <<>>)), StmtExpression(Num(7))>>

IdentifierPrograms == {<<StmtExpression(Id(n))>> : n \in {"x", "len", "first", "y"}}

Programs == LetPrograms \cup CallPrograms \cup IdentifierPrograms \cup {CallThenSeven}

(***************************************************************************)
(* repl.rs: start.  The Environment is made once; every iteration of the   *)
(* loop evaluates the program of one line on it.                           *)
(***************************************************************************)
\* a Lexer on input, no token asked of it yet
Fresh(input) == [l |-> Lexer_new(input), calls |-> <<>>]

\* the state of start before the first line
Started ==
    /\ env = Environment_new
    /\ response = [resp |-> "None"]
    /\ program = <<>>
    /\ before = Environment_new
    /\ log = <<>>
    /\ lines = 0
    /\ at_definition = <<>>
    /\ overflow_checks \in BOOLEAN
    /\ parse = ParseOk(Parser_new(<<>>), <<>>)
    /\ printed = [source |-> <<>>, parsed |-> FALSE]

Init == Started /\ lexer = Fresh(<<>>)

\* the record of definitions after a line: a name stays as long as it is
\* bound to the same function literal, and a line "let n = fn ..." records n
Recorded(prog, old, new) ==
    LET kept == {n \in DOMAIN at_definition :
                    /\ n \in DOMAIN new.store
                    /\ new.store[n].type = "Function"
                    /\ new.store[n].parameters = old.store[n].parameters
                    /\ new.store[n].body = old.store[n].body}
        defines == /\ Len(prog) = 1
                   /\ prog[1].stmt = "Let"
                   /\ prog[1].value.expr = "Function"
    IN  IF defines
        THEN (prog[1].name.name :> old)
             @@ [n \in kept \ {prog[1].name.name} |-> at_definition[n]]
        ELSE [n \in kept |-> at_definition[n]]

\* the loop goes on with the Environment env.eval(program) left
Evaluated(prog, r) ==
    /\ env' = r.env
    /\ response' = r.response
    /\ log' = r.log
    /\ at_definition' = Recorded(prog, env, r.env)

ReplLine(prog) ==
    /\ lines < MaxLines
    /\ response.resp # "Panic"
    /\ Evaluated(prog, eval(env, prog))
    /\ program' = prog
    /\ before' = env
    /\ lines' = lines + 1
    /\ UNCHANGED <<overflow_checks, parse, lexer, printed>>

Next == \E prog \in Programs : ReplLine(prog)

ParseErrors == [resp |-> "ParseErrors"]

\* the loop, had it evaluated the Program whatever the error list holds
Parsed_evaluating(r) ==
    /\ parse' = r
    /\ program' = r.val
    /\ before' = env
    /\ CASE r.kind # "Ok" ->
              /\ response' = Aborted("stack overflow")
              /\ log' = <<>>
              /\ UNCHANGED <<env, at_definition>>
         [] OTHER -> Evaluated(r.val, eval(env, r.val))

\* an iteration of the loop on what parse_program yields: the process ends
\* when the parser does not return, the errors are printed and nothing is
\* evaluated when there are any, and the program is evaluated otherwise
Parsed(r) ==
    /\ parse' = r
    /\ program' = r.val
    /\ before' = env
    /\ CASE r.kind # "Ok" ->
              /\ response' = Aborted("stack overflow")
              /\ log' = <<>>
              /\ UNCHANGED <<env, at_definition>>
         [] r.kind = "Ok" /\ exists_errors(r.p) ->
              /\ response' = ParseErrors
              /\ log' = <<>>
              /\ UNCHANGED <<env, at_definition>>
         [] OTHER -> Evaluated(r.val, eval(env, r.val))

\* an iteration of the loop of start on a line the lexer gives as input
ReplInput(input) ==
    /\ lines < MaxLines
    /\ response.resp # "Panic"
    /\ Parsed(parse_program(Parser_new(input)))
    /\ lines' = lines + 1
    /\ UNCHANGED <<overflow_checks, lexer, printed>>

Spec == Init /\ [][Next]_vars


(***************************************************************************)
(* The loop given indexing lines: every array literal of at most MaxLen    *)
(* literal elements indexed by every integer from -2 to MaxLen + 1, every  *)
(* map literal of at most MaxLen pairs indexed by every key, and the map   *)
(* literals with a key that is no Integer, Boolean or String.              *)
(***************************************************************************)
ElementLiterals == {Num(7), ExprBoolean(TRUE), ExprString("a")}

ArrayLiterals == UNION {[1..k -> ElementLiterals] : k \in 0..MaxLen}

Indices == (0 - 2)..(MaxLen + 1)

\* the parser reads -1 as the prefix expression (-1)
IndexLiteral(i) == IF i < 0 THEN ExprPrefix("Minus", Num(0 - i)) ELSE Num(i)

ArrayIndexLine(elements, i) ==
    <<StmtExpression(ExprIndex(ExprArray(elements), IndexLiteral(i)))>>

\* the key literals of the map literals, in the order of Ord for Expression
\* (Integer before String before Boolean), which is the order the BTreeMap
\* of a map literal iterates in
KeyOrder == <<Num(1), Num(2), ExprString("1"), ExprBoolean(TRUE)>>

KeySets == {S \in SUBSET (1..Len(KeyOrder)) : Cardinality(S) <= MaxLen}

\* the map literal with the keys KeyOrder[k], k in S, key k valued 10 + k
MapLiteral(S) ==
    LET ranked == [j \in 1..Cardinality(S) |->
                      CHOOSE k \in S : Cardinality({m \in S : m < k}) = j - 1]
    IN  ExprMap([j \in 1..Cardinality(S) |->
                    <<KeyOrder[ranked[j]], Num(10 + ranked[j])>>])

UsableKeys ==
    {KeyOrder[k] : k \in 1..Len(KeyOrder)}
    \cup {Num(3), ExprBoolean(FALSE), ExprString("2"), ExprString("true")}

\* expressions whose value is Null, an Array, a Map, a Function, a Builtin:
\* if (false) {}   [1]   {}   fn(x) { x; }   len
UnusableKeys ==
    {[lit |-> ExprIf(ExprBoolean(FALSE), StmtBlock(<<>>), <<>>), type |-> "Null"],
     [lit |-> ExprArray(<<Num(1)>>), type |-> "Array"],
     [lit |-> ExprMap(<<>>), type |-> "Map"],
     [lit |-> Fn(<<"x">>, <<StmtExpression(Id("x"))>>), type |-> "Function"],
     [lit |-> Id("len"), type |-> "Buildin"]}

MapIndexLine(S, key) == <<StmtExpression(ExprIndex(MapLiteral(S), key))>>

MapLine(key) == <<StmtExpression(ExprMap(<<<<key, Num(1)>>>>))>>

IndexPrograms ==
    {ArrayIndexLine(a, i) : a \in ArrayLiterals, i \in Indices}
    \cup {MapIndexLine(S, k) : S \in KeySets, k \in UsableKeys}
    \cup {MapIndexLine(S, u.lit) : S \in KeySets, u \in UnusableKeys}
    \cup {MapLine(u.lit) : u \in UnusableKeys}

NextIndex == \E prog \in IndexPrograms : ReplLine(prog)

SpecIndex == Init /\ [][NextIndex]_vars

(***************************************************************************)
(* The loop given lines that bind arrays and push to them: let a = [..],   *)
(* let c = a, push(a, v) alone and bound to a or b, and the names alone.   *)
(***************************************************************************)
PushValues == {Num(2), ExprString("b")}

\* push(a, v)
PushCall(v) == ExprCall(Id("push"), <<Id("a"), v>>)

PushLets == {LetLine(n, PushCall(v)) : n \in {"a", "b"}, v \in PushValues}

\* [] and [7] and [7, "a"]
PushArrays == {<<>>, <<Num(7)>>, <<Num(7), ExprString("a")>>}

PushPrograms ==
    {LetLine("a", ExprArray(elements)) : elements \in PushArrays}
    \cup {LetLine("a", Num(1)), LetLine("c", Id("a"))}
    \cup PushLets
    \cup {<<StmtExpression(PushCall(v))>> : v \in PushValues}
    \cup {<<StmtExpression(Id(n))>> : n \in {"a", "b", "c"}}

NextPush == \E prog \in PushPrograms : ReplLine(prog)

SpecPush == Init /\ [][NextPush]_vars

(***************************************************************************)
(* The loop given operator lines: !v, !!v, if (v) { 1 } else { 2 } and     *)
(* l op r for operands of every type of value and every infix operator the *)
(* parser builds an Infix expression with.                                 *)
(***************************************************************************)
\* if (false) {}, the value Null
NullExpr == ExprIf(ExprBoolean(FALSE), StmtBlock(<<>>), <<>>)

\* 0  5  true  false  ""  "a"  []  [1]  if (false) {}  fn(x) { x; }  len  {}
Operands ==
    {Num(0), Num(5), ExprBoolean(TRUE), ExprBoolean(FALSE),
     ExprString(""), ExprString("a"), ExprArray(<<>>), ExprArray(<<Num(1)>>),
     NullExpr, Fn(<<"x">>, <<StmtExpression(Id("x"))>>), Id("len"), ExprMap(<<>>)}

\* one operand of each type of value
InfixOperands ==
    {Num(5), ExprBoolean(TRUE), ExprString("a"), ExprArray(<<>>),
     NullExpr, Fn(<<"x">>, <<StmtExpression(Id("x"))>>), Id("len"), ExprMap(<<>>)}

InfixOperators == {"Plus", "Minus", "Asterisk", "Slash", "Lt", "Gt", "Eq", "Ne"}

BangLine(v)   == <<StmtExpression(ExprPrefix("Bang", v))>>
NotNotLine(v) == <<StmtExpression(ExprPrefix("Bang", ExprPrefix("Bang", v)))>>
IfLine(v) ==
    <<StmtExpression(ExprIf(v, StmtBlock(<<StmtExpression(Num(1))>>),
                            <<StmtBlock(<<StmtExpression(Num(2))>>)>>))>>
InfixLine(l, operator, r) == <<StmtExpression(ExprInfix(l, operator, r))>>

OperatorPrograms ==
    {BangLine(v) : v \in Operands}
    \cup {NotNotLine(v) : v \in Operands}
    \cup {IfLine(v) : v \in Operands}
    \cup {InfixLine(l, o, r) :
             l \in InfixOperands, o \in InfixOperators, r \in InfixOperands}
    \cup {InfixLine(a, "Slash", Num(0)) : a \in {Num(0), Num(5)}}

NextOperators == \E prog \in OperatorPrograms : ReplLine(prog)

SpecOperators == Init /\ [][NextOperators]_vars

(***************************************************************************)
(* The loop given lines of control flow: if expressions whose branches     *)
(* bind a name or fail, programs that fail in the middle, and programs     *)
(* that return in the middle.  The names y and z are never bound.          *)
(***************************************************************************)
\* { let n = v; }
Bind(n, v) == StmtBlock(<<StmtLet(Id(n), Num(v))>>)
\* { n; }
Fail(n) == StmtBlock(<<StmtExpression(Id(n))>>)

Conditions == {ExprBoolean(TRUE), ExprBoolean(FALSE), Num(0), NullExpr, ExprString("")}
Consequences == {Bind("t", 1), Fail("y")}
Alternatives == {<<>>, <<Bind("e", 2)>>, <<Fail("z")>>}

\* if (c) consequence else alternative
Branch(c, consequence, alternative) ==
    <<StmtExpression(ExprIf(c, consequence, alternative))>>

\* fn() { let c = 1; b; }()
CondCall(b) ==
    ExprCall(Fn(<<>>, <<StmtLet(Id("c"), Num(1)), StmtExpression(ExprBoolean(b))>>),
             <<>>)

BranchPrograms ==
    {Branch(c, consequence, alternative) :
        c \in Conditions, consequence \in Consequences, alternative \in Alternatives}
    \cup {Branch(CondCall(b), Bind("t", 1), <<Bind("e", 2)>>) : b \in BOOLEAN}

NotFound(name) == "identifier not found: " \o name

\* let a = 1; y; let b = 2;
FailingSecond ==
    <<StmtLet(Id("a"), Num(1)), StmtExpression(Id("y")), StmtLet(Id("b"), Num(2))>>
\* fn(p, q) { let s = 1; }(y, z); let b = 2;
FailingArgument ==
    <<StmtExpression(ExprCall(Fn(<<"p", "q">>, <<StmtLet(Id("s"), Num(1))>>),
                              <<Id("y"), Id("z")>>)),
      StmtLet(Id("b"), Num(2))>>
\* fn() { if (true) { let s = 1; y; let t = 2; } let a = 3; }(); let b = 4;
FailingInCall ==
    <<StmtExpression(ExprCall(
         Fn(<<>>, <<StmtExpression(ExprIf(ExprBoolean(TRUE),
                        StmtBlock(<<StmtLet(Id("s"), Num(1)),
                                    StmtExpression(Id("y")),
                                    StmtLet(Id("t"), Num(2))>>), <<>>)),
                    StmtLet(Id("a"), Num(3))>>), <<>>)),
      StmtLet(Id("b"), Num(4))>>
\* e; let b = 2;
FailingFirst(e) == <<StmtExpression(e), StmtLet(Id("b"), Num(2))>>

\* programs with the message of their first failure in evaluation order,
\* the names bound before it, in a scope of a call or in the Environment of
\* the loop, and the number of statements begun before it
ErrorCases ==
    {[prog |-> FailingSecond, msg |-> NotFound("y"), sets |-> <<"a">>, stmts |-> 2],
     [prog |-> FailingArgument, msg |-> NotFound("y"), sets |-> <<>>, stmts |-> 1],
     [prog |-> FailingInCall, msg |-> NotFound("y"), sets |-> <<"s">>, stmts |-> 6],
     \* y + z
     [prog |-> FailingFirst(ExprInfix(Id("y"), "Plus", Id("z"))),
      msg |-> NotFound("y"), sets |-> <<>>, stmts |-> 1],
     \* [1, y, z]
     [prog |-> FailingFirst(ExprArray(<<Num(1), Id("y"), Id("z")>>)),
      msg |-> NotFound("y"), sets |-> <<>>, stmts |-> 1],
     \* {y: 1, z: 2}
     [prog |-> FailingFirst(ExprMap(<<<<Id("y"), Num(1)>>, <<Id("z"), Num(2)>>>>)),
      msg |-> NotFound("y"), sets |-> <<>>, stmts |-> 1],
     \* z[y]
     [prog |-> FailingFirst(ExprIndex(Id("z"), Id("y"))),
      msg |-> NotFound("z"), sets |-> <<>>, stmts |-> 1],
     \* z(y)
     [prog |-> FailingFirst(ExprCall(Id("z"), <<Id("y")>>)),
      msg |-> NotFound("z"), sets |-> <<>>, stmts |-> 1],
     \* if (y) { let s = 1; } else { let t = 2; }
     [prog |-> FailingFirst(ExprIf(Id("y"), Bind("s", 1), <<Bind("t", 2)>>)),
      msg |-> NotFound("y"), sets |-> <<>>, stmts |-> 1],
     \* -true
     [prog |-> FailingFirst(ExprPrefix("Minus", ExprBoolean(TRUE))),
      msg |-> "unknown operator: -Boolean", sets |-> <<>>, stmts |-> 1],
     \* len(1)
     [prog |-> FailingFirst(ExprCall(Id("len"), <<Num(1)>>)),
      msg |-> "argument to 'len' not supported, got Integer",
      sets |-> <<>>, stmts |-> 1],
     \* fn(p) { p; }(1, 2)
     [prog |-> FailingFirst(ExprCall(Fn(<<"p">>, <<StmtExpression(Id("p"))>>),
                                     <<Num(1), Num(2)>>)),
      msg |-> "expected arity to be 1, got 2 instead", sets |-> <<>>, stmts |-> 1],
     \* let a = 5 + true; let b = 2;
     [prog |-> <<StmtLet(Id("a"), ExprInfix(Num(5), "Plus", ExprBoolean(TRUE))),
                 StmtLet(Id("b"), Num(2))>>,
      msg |-> "type mismatch: Integer + Boolean", sets |-> <<>>, stmts |-> 1],
     \* 5; true + false; 5;
     [prog |-> <<StmtExpression(Num(5)),
                 StmtExpression(ExprInfix(ExprBoolean(TRUE), "Plus", ExprBoolean(FALSE))),
                 StmtExpression(Num(5))>>,
      msg |-> "unknown operator: Boolean + Boolean", sets |-> <<>>, stmts |-> 2]}

TenOverOne == ExprInfix(Num(10), "Gt", Num(1))
\* if (10 > 1) { if (10 > 1) { return 10; } return 1; }
ReturningNested ==
    <<StmtExpression(ExprIf(TenOverOne,
         StmtBlock(<<StmtExpression(ExprIf(TenOverOne,
                         StmtBlock(<<StmtReturn(Num(10))>>), <<>>)),
                     StmtReturn(Num(1))>>), <<>>))>>
\* if (true) { if (true) { return 10; let s = 1; } let t = 2; } let b = 3;
ReturningThroughBlocks ==
    <<StmtExpression(ExprIf(ExprBoolean(TRUE),
         StmtBlock(<<StmtExpression(ExprIf(ExprBoolean(TRUE),
                         StmtBlock(<<StmtReturn(Num(10)), StmtLet(Id("s"), Num(1))>>),
                         <<>>)),
                     StmtLet(Id("t"), Num(2))>>), <<>>)),
      StmtLet(Id("b"), Num(3))>>

\* programs with the value of their first return, the names bound before
\* it and the number of statements begun up to it
ReturnCases ==
    {\* 9; return 2 * 5; 9;
     [prog |-> <<StmtExpression(Num(9)),
                 StmtReturn(ExprInfix(Num(2), "Asterisk", Num(5))),
                 StmtExpression(Num(9))>>,
      int |-> 10, sets |-> <<>>, stmts |-> 2],
     \* let a = 1; return a; let b = 2;
     [prog |-> <<StmtLet(Id("a"), Num(1)), StmtReturn(Id("a")),
                 StmtLet(Id("b"), Num(2))>>,
      int |-> 1, sets |-> <<"a">>, stmts |-> 2],
     \* return 10;
     [prog |-> <<StmtReturn(Num(10))>>, int |-> 10, sets |-> <<>>, stmts |-> 1],
     \* return 10; 9;
     [prog |-> <<StmtReturn(Num(10)), StmtExpression(Num(9))>>,
      int |-> 10, sets |-> <<>>, stmts |-> 1],
     [prog |-> ReturningNested, int |-> 10, sets |-> <<>>, stmts |-> 5],
     [prog |-> ReturningThroughBlocks, int |-> 10, sets |-> <<>>, stmts |-> 5]}

ControlPrograms ==
    BranchPrograms \cup {c.prog : c \in ErrorCases} \cup {c.prog : c \in ReturnCases}

NextControl == \E prog \in ControlPrograms : ReplLine(prog)

SpecControl == Init /\ [][NextControl]_vars

(***************************************************************************)
(* The loop given lines as the tokens the lexer makes of them.  A line is  *)
(* written as its words; Word is the token lexer.rs makes of a word.       *)
(***************************************************************************)
PlainTokens ==
    {"Assign", "Plus", "Minus", "Asterisk", "Slash", "Bang", "Lt", "Gt", "Eq",
     "Ne", "Comma", "Semicolon", "Colon", "LParen", "RParen", "LBrace",
     "RBrace", "LBracket", "RBracket", "Function", "Let", "True", "False",
     "If", "Else", "Return"}

Digits == ("0" :> 0) @@ ("1" :> 1) @@ ("2" :> 2) @@ ("3" :> 3) @@ ("5" :> 5)

IllegalChars == {"@", "#"}

Word(w) ==
    CASE \E kind \in PlainTokens : TokenDisplay(kind) = w ->
            Token(CHOOSE kind \in PlainTokens : TokenDisplay(kind) = w)
      [] w \in DOMAIN Digits -> TokInteger(Digits[w])
      [] w \in IllegalChars -> TokIllegal(w)
      [] OTHER -> TokIdentifier(w)

Words(ws) == [i \in 1..Len(ws) |-> Word(ws[i])]

\* the starts of lines that end where the parser expects a token, with the
\* text of the token expected
Expecting ==
    {[line |-> <<"let">>, want |-> "Ident"],
     [line |-> <<"let", "x">>, want |-> "="],
     [line |-> <<"(", "1">>, want |-> ")"],
     [line |-> <<"if">>, want |-> "("],
     [line |-> <<"if", "(", "x">>, want |-> ")"],
     [line |-> <<"if", "(", "x", ")">>, want |-> "{"],
     [line |-> <<"if", "(", "x", ")", "{", "1", "}", "else">>, want |-> "{"],
     [line |-> <<"fn">>, want |-> "("],
     [line |-> <<"fn", "(", "a", ",">>, want |-> "Ident"],
     [line |-> <<"fn", "(", ")">>, want |-> "{"],
     [line |-> <<"a", "[", "1">>, want |-> "]"],
     [line |-> <<"{", "1">>, want |-> ":"]}

\* the words that follow such a start; the line may also end there
Following == {"@", "5", "y", ";", ")", "}", "]", ",", "=", ":", "let", "+"}

ExpectingLines ==
    {Words(e.line) : e \in Expecting}
    \cup {Words(e.line \o <<y>>) : e \in Expecting, y \in Following}

\* lines of several statements, some of which fail, and lines with an
\* illegal character where a statement starts, where an operand is due and
\* after a complete expression
StatementLines ==
    {Words(ws) : ws \in
        {<<"let", "x", "5", ";", "1", ";", "let", "=", "2", ";", "3">>,
         <<"1", ")", "2">>,
         <<"let", "x", "=", "1", ";", ")", ";", "let", "y", "=", "2", ";">>,
         <<"let", "x", "=", "1", ";", "x">>,
         <<"1", ";", "2", ";", "3">>,
         <<"}", "{">>,
         <<"@">>, <<"1", ";", "@", ";", "2">>, <<"1", "+", "@">>, <<"-", "@">>,
         <<"1", "@">>, <<"1", "@", "2">>, <<"1", "#", "@">>,
         <<"fn", "(", ")", "{", "@", "}">>, <<"f", "(", "@", ")">>,
         <<"[", "1", ",", "@", "]">>, <<"let", "x", "=", "@", ";", "x">>,
         <<"1", "+">>, <<"return">>, <<"{">>, <<"fn", "(", ")", "{", "1">>}}

InputLines == ExpectingLines \cup StatementLines

NextParser == \E input \in InputLines : ReplInput(input)

SpecParser == Init /\ [][NextParser]_vars

(***************************************************************************)
(* The loop given lines of one expression: chains of up to three operands  *)
(* joined by binary operators, an operand being a name, a name under a     *)
(* prefix operator, a call, or an indexed name under a prefix operator.    *)
(***************************************************************************)
BinaryWords == {"==", "!=", "<", ">", "+", "-", "*", "/"}

\* one operator of every level, and with - a second one of the level of +
LevelWords == {"==", "<", "+", "*"}

\* the operands a chain of three may have first, second and third
OperandWords ==
    <<{<<"a">>, <<"-", "a">>},
      {<<"!", "b">>, <<"b", "(", "x", ")">>},
      {<<"c">>, <<"-", "c", "[", "1", "]">>}>>

\* the chains of one and of two operands
ShortChains ==
    OperandWords[1]
    \cup {l \o <<o>> \o r : l \in OperandWords[1], o \in BinaryWords,
                            r \in OperandWords[2] \cup {<<"b">>}}

PrecedenceLines ==
    {Words(ws) : ws \in
        ShortChains
        \cup {<<"a", "+", "b", "-", "c">>}
        \cup {l \o <<o>> \o m \o <<q>> \o r :
                 l \in OperandWords[1], o \in LevelWords, m \in OperandWords[2],
                 q \in LevelWords \cup {"-"}, r \in OperandWords[3]}}

NextPrecedence == \E input \in PrecedenceLines : ReplInput(input)

SpecPrecedence == Init /\ [][NextPrecedence]_vars

(***************************************************************************)
(* A Lexer on an input of at most MaxChars characters, asked for token     *)
(* after token, two more than the input has characters.                    *)
(***************************************************************************)
LexerChars == {"a", "1", " ", "=", "!", "\"", "@", ";", NUL}

LexerInputs == UNION {[1..k -> LexerChars] : k \in 0..MaxChars}

InitLexer == Started /\ \E input \in LexerInputs : lexer = Fresh(input)

\* a call of next_token, recorded with the position before and after it
Called(l, r) ==
    [l |-> r.l,
     calls |-> Append(lexer.calls, [from |-> l.position, to |-> r.l.position,
                                    token |-> r.token])]

NextToken ==
    /\ Len(lexer.calls) < Len(lexer.l.input) + 2
    /\ lexer' = Called(lexer.l, Lexer_next_token(lexer.l))
    /\ UNCHANGED <<env, response, program, before, log, lines, at_definition,
                   overflow_checks, parse, printed>>

NextLexer == NextToken

SpecLexer == InitLexer /\ [][NextLexer]_vars

(***************************************************************************)
(* Expressions parsed from their text, printed, and parsed and printed     *)
(* again: the short chains of operators, and expressions of every kind.    *)
(***************************************************************************)
RECURSIVE Typed(_)
\* the text of a line written as words, a space after every word
Typed(ws) == IF ws = <<>> THEN <<>> ELSE chars(Head(ws)) \o <<" ">> \o Typed(Tail(ws))

ExpressionWords ==
    {<<"a", "+", "b", "-", "c">>,
     <<"!", "-", "a">>,
     <<"a", "+", "add", "(", "b", "*", "c", ")", "+", "d">>,
     <<"(", "5", "+", "5", ")", "*", "2">>,
     <<"a", "*", "[", "1", ",", "2", "]", "[", "b", "]">>,
     <<"true">>,
     <<"3", ">", "5", "==", "false">>,
     <<"add", "(", ")">>,
     <<"add", "(", "a", ",", "1", ")">>,
     <<"[", "]">>,
     <<"{", "}">>,
     <<"{", "1", ":", "2", ",", "a", ":", "b", "}">>,
     <<"if", "(", "x", "<", "y", ")", "{", "x", "}">>,
     <<"if", "(", "x", "<", "y", ")", "{", "x", "}", "else", "{", "y", "}">>,
     <<"if", "(", "x", ")", "{", "1", "}", "else", "{", "2", "}">>,
     <<"if", "(", "(", "x", ")", ")", "{", "1", "}", "else", "{", "2", "}">>,
     <<"if", "(", "x", "<", "y", ")", "{", "let", "a", "=", "1", ";", "a", "}",
       "else", "{", "return", "y", ";", "}">>,
     <<"fn", "(", ")", "{", "}">>,
     <<"fn", "(", ")", "{", "1", "}">>,
     <<"fn", "(", "x", ",", "y", ")", "{", "x", "+", "y", "}">>,
     <<"fn", "(", "x", ")", "{", "x", ";", "y", "}">>,
     <<"fn", "(", "x", ")", "{", "x", ";", "-", "y", "}">>,
     <<"fn", "(", "x", ")", "{", "let", "a", "=", "1", ";", "a", "}">>,
     <<"fn", "(", "x", ")", "{", "return", "x", ";", "}">>,
     <<"fn", "(", "x", ")", "{", "x", "}", "(", "1", ")">>}

\* string literals, written as their characters
StringTexts ==
    {<<"\"", "a", "\"">>, <<"\"", "a", " ", "b", "\"">>, <<"\"", "\"">>,
     <<"\"", "1", " ", "+", "\"">>, <<"l", "e", "n", "(", "\"", "a", "\"", ")">>,
     <<"\"", "a", "\"", " ", "+", " ", "\"", "b", "\"">>}

Sources == {Typed(ws) : ws \in ShortChains \cup ExpressionWords} \cup StringTexts

\* what printing the statements parse_program made of text gives
Second(source, e, text, second) ==
    [source |-> source, parsed |-> TRUE, e |-> e, text |-> text, second |-> second,
     again |-> IF second.kind = "Ok" THEN fmt_block(second.val, 1) ELSE <<>>]

\* the expression printed, and what is printed parsed and printed again
Again(source, e, text) ==
    Second(source, e, text, parse_program(Parser_new(Tokens(text))))

\* on the Program of a source: a source of one expression that parses
\* without errors is printed
Reprinted(source, once) ==
    IF /\ once.kind = "Ok"
       /\ ~exists_errors(once.p)
       /\ Len(once.val) = 1
       /\ once.val[1].stmt = "Expression"
    THEN Again(source, once.val[1].value, fmt_expression(once.val[1].value))
    ELSE [source |-> source, parsed |-> FALSE]

Reprint(source) ==
    /\ lines < MaxLines
    /\ printed' = Reprinted(source, parse_program(Parser_new(Tokens(source))))
    /\ lines' = lines + 1
    /\ UNCHANGED <<env, response, program, before, log, at_definition,
                   overflow_checks, parse, lexer>>

NextDisplay == \E source \in Sources : Reprint(source)

SpecDisplay == Init /\ [][NextDisplay]_vars

(***************************************************************************)
(* The loop given lines that bind and read x and y, lines with a syntax    *)
(* error before, between and after statements that bind, and lines the     *)
(* parser does not return from.                                            *)
(***************************************************************************)
ReplLines ==
    {Words(ws) : ws \in
        {<<"let", "x", "=", "1">>, <<"let", "x", "=", "2", ";">>,
         <<"let", "y", "=", "x">>, <<"let", "y", "=", "3", ";", "y">>,
         <<"x">>, <<"y">>, <<"x", "+", "y">>,
         <<"let", "x", "=", "5", ";", "let", "=", "3">>,
         <<"let", "y", "=", "5", ")">>,
         <<")", "let", "y", "=", "5", ";", "let", "x", "=", "5">>,
         <<"let", "x", "=", "3", ";", "@", ";", "let", "y", "=", "2">>,
         <<"let", "x", "5">>,
         <<"let", "y", "=", "1", ";", "let", "z", "=", "q", ";", "let", "x", "=", "3">>,
         <<"let", "x", "=", "5", ";", "(", "1">>,
         <<"let", "y", "=", "5", ";", "1", "+">>}}

NextRepl == \E input \in ReplLines : ReplInput(input)

SpecRepl == Init /\ [][NextRepl]_vars

(***************************************************************************)
(* The loop given calls and array literals whose callee, arguments and     *)
(* elements each bind a name of their own when they are evaluated and then *)
(* yield a value or fail on an identifier that is nowhere bound.           *)
(***************************************************************************)
\* the names the callee and the arguments or elements bind
CalleeName == "f"
ArgumentNames == <<"a", "b", "c">>

\* the identifier the sub-expression that binds n fails on
Unbound(n) == n \o n

\* if (true) { let n = 1; value }
Marked(n, value) ==
    ExprIf(ExprBoolean(TRUE),
           StmtBlock(<<StmtLet(Id(n), Num(1)), StmtExpression(value)>>), <<>>)

\* fn(x, y) { let r = 9; r }
TwoParameters == Fn(<<"x", "y">>, <<StmtLet(Id("r"), Num(9)), StmtExpression(Id("r"))>>)

\* which sub-expressions yield a value: the callee, and every argument
Outcomes ==
    {[callee |-> c, arguments |-> a] :
        c \in BOOLEAN, a \in UNION {[1..k -> BOOLEAN] : k \in 0..3}}

MarkedList(flags) ==
    [i \in 1..Len(flags) |->
        Marked(ArgumentNames[i],
               IF flags[i] THEN Num(i) ELSE Id(Unbound(ArgumentNames[i])))]

OrderedCall(o) ==
    <<StmtExpression(
        ExprCall(Marked(CalleeName,
                        IF o.callee THEN TwoParameters ELSE Id(Unbound(CalleeName))),
                 MarkedList(o.arguments)))>>

OrderedArray(o) == <<StmtExpression(ExprArray(MarkedList(o.arguments)))>>

OrderPrograms == {OrderedCall(o) : o \in Outcomes} \cup {OrderedArray(o) : o \in Outcomes}

NextOrder == \E prog \in OrderPrograms : ReplLine(prog)

SpecOrder == Init /\ [][NextOrder]_vars

(***************************************************************************)
(* The loop given lines let n = fn() { n; }; for a name that no built-in   *)
(* function has and for one that a built-in function has, lines that bind  *)
(* the names to integers, calls of the names, and the same inside a        *)
(* function body.                                                          *)
(***************************************************************************)
SelfNames == {"x", "y", "len"}

\* fn() { let n = fn() { n; }; n(); }()
SelfInside(n) ==
    CallLine(Fn(<<>>, <<StmtLet(Id(n), Reader(n)),
                       StmtExpression(ExprCall(Id(n), <<>>))>>), <<>>)

SelfPrograms ==
    {LetLine(n, Reader(n)) : n \in SelfNames}
    \cup {LetLine(n, Num(v)) : n \in {"x", "len"}, v \in {1, 2}}
    \cup {CallLine(Id(n), <<>>) : n \in SelfNames}
    \cup {SelfInside(n) : n \in SelfNames}

NextSelf == \E prog \in SelfPrograms : ReplLine(prog)

SpecSelf == Init /\ [][NextSelf]_vars

(***************************************************************************)
(* The loop given lines with a let inside the blocks of if expressions,    *)
(* at top level and in a function body, and lines that bind and read the   *)
(* names.                                                                  *)
(***************************************************************************)
\* if (c) { let x = 3; } else { let x = 4; }; x;
IfThenRead(c) ==
    <<StmtExpression(ExprIf(ExprBoolean(c), Bind("x", 3), <<Bind("x", 4)>>)),
      StmtExpression(Id("x"))>>

\* if (true) { if (true) { let y = 5; } }; y;
NestedIfThenRead ==
    <<StmtExpression(ExprIf(ExprBoolean(TRUE),
                            StmtBlock(<<StmtExpression(
                                ExprIf(ExprBoolean(TRUE), Bind("y", 5), <<>>))>>),
                            <<>>)),
      StmtExpression(Id("y"))>>

\* fn(a) { if (a) { let x = 3; } x; }(b)
InFunction(b) == CallLine(Shadower, <<ExprBoolean(b)>>)

BlockPrograms ==
    {IfThenRead(c) : c \in BOOLEAN}
    \cup {InFunction(b) : b \in BOOLEAN}
    \cup {NestedIfThenRead}
    \cup {LetLine(n, Num(v)) : n \in {"x", "y"}, v \in {1, 2}}
    \cup {<<StmtExpression(Id(n))>> : n \in {"x", "y"}}
    \cup {LetLine("h", Shadower), CallLine(Id("h"), <<ExprBoolean(TRUE)>>)}

NextBlock == \E prog \in BlockPrograms : ReplLine(prog)

SpecBlock == Init /\ [][NextBlock]_vars

(***************************************************************************)
(* The loop given programs of up to three statements: lets of integers,    *)
(* and statements that fail on the unbound identifier q, as a let, as an   *)
(* expression, and after a let in the block of an if expression that the   *)
(* statement evaluates first.                                              *)
(***************************************************************************)
\* if (true) { let n = 7; q; }
InnerThenFail(n) ==
    ExprIf(ExprBoolean(TRUE),
           StmtBlock(<<StmtLet(Id(n), Num(7)), StmtExpression(Id("q"))>>), <<>>)

Binding == {StmtLet(Id("x"), Num(1)), StmtLet(Id("x"), Num(2)), StmtLet(Id("y"), Num(1))}

\* statements that fail and bind nothing before they do
FailingPlain == {StmtLet(Id("x"), Id("q")), StmtExpression(Id("q"))}

\* statements that fail after a let of their own was evaluated
FailingAfterLet ==
    {StmtExpression(InnerThenFail("y")), StmtLet(Id("x"), InnerThenFail("x"))}

Steps == Binding \cup FailingPlain \cup FailingAfterLet

StepPrograms ==
    {<<s>> : s \in Steps}
    \cup {<<s, t>> : s \in Steps, t \in Steps}
    \cup {<<StmtLet(Id("x"), Num(1)), s, StmtLet(Id("y"), Num(2))>> : s \in Steps}

FailingPrograms == StepPrograms \cup {<<StmtExpression(Id(n))>> : n \in {"x", "y"}}

NextFailing == \E prog \in FailingPrograms : ReplLine(prog)

SpecFailing == Init /\ [][NextFailing]_vars

(***************************************************************************)
(* The loop given map literals of up to three pairs.  The keys are 1, 2,   *)
(* "a", 1 + 1 and true (2, 1 + 1 and true in literals of three pairs) in   *)
(* every order, with repetitions; the value of the i-th pair written is    *)
(* if (true) { 10 * i } or, in literals of two pairs, an identifier that   *)
(* is nowhere bound.                                                       *)
(***************************************************************************)
\* the keys, in the order derive(Ord) gives their expressions, with the
\* tokens and the value of each
MapKeys ==
    <<[tokens |-> <<TokInteger(1)>>, value |-> ObjInteger(1)],
      [tokens |-> <<TokInteger(2)>>, value |-> ObjInteger(2)],
      [tokens |-> <<TokString("a")>>, value |-> ObjString("a")],
      [tokens |-> <<TokInteger(1), Token("Plus"), TokInteger(1)>>,
       value |-> ObjInteger(2)],
      [tokens |-> <<Token("True")>>, value |-> ObjBoolean(TRUE)]>>

\* a literal: the key of every pair as written, and whether its value yields
MapCases ==
    {[keys |-> k, yields |-> [i \in 1..Len(k) |-> TRUE]] :
        k \in [1..1 -> 1..Len(MapKeys)] \cup [1..3 -> {2, 4, 5}]}
    \cup {[keys |-> k, yields |-> y] :
             k \in [1..2 -> 1..Len(MapKeys)], y \in [1..2 -> BOOLEAN]}

ValueTokens(c, i) ==
    IF c.yields[i]
    THEN <<Token("If"), Token("LParen"), Token("True"), Token("RParen"),
           Token("LBrace"), TokInteger(10 * i), Token("RBrace")>>
    ELSE <<TokIdentifier(Unbound(ArgumentNames[i]))>>

RECURSIVE PairTokens(_, _)
PairTokens(c, i) ==
    IF i > Len(c.keys) THEN <<>>
    ELSE MapKeys[c.keys[i]].tokens \o <<Token("Colon")>> \o ValueTokens(c, i)
         \o (IF i < Len(c.keys) THEN <<Token("Comma")>> ELSE <<>>)
         \o PairTokens(c, i + 1)

MapTokens(c) == <<Token("LBrace")>> \o PairTokens(c, 1) \o <<Token("RBrace")>>

MapLines == {MapTokens(c) : c \in MapCases}

NextMap == \E input \in MapLines : ReplInput(input)

SpecMap == Init /\ [][NextMap]_vars

(***************************************************************************)
(* What the properties are stated with.                                    *)
(***************************************************************************)
BuildinNames == {"len", "first", "last", "rest", "push"}

\* the reply to a line that consists of the identifier name, for a chain of
\* scopes given innermost first
Resolved(chain, name) ==
    LET holding == {i \in 1..Len(chain) : name \in DOMAIN chain[i]}
    IN  IF holding # {}
        THEN Reply(chain[CHOOSE i \in holding : \A j \in holding : i <= j][name])
        ELSE IF name \in BuildinNames
             THEN Reply(ObjBuildin(name))
             ELSE Error("identifier not found: " \o name)

IsFunction(object) == object.type = "Function"

\* object is a closure of a literal fn() { name; }
IsReader(object) ==
    /\ IsFunction(object)
    /\ object.parameters = <<>>
    /\ object.body.statements \in {<<StmtExpression(Id(n))>> : n \in {"x", "y", "len"}}

ReaderName(object) == object.body.statements[1].value.name

BoundTo(scope, name, literal) ==
    /\ name \in DOMAIN scope.store
    /\ IsFunction(scope.store[name])
    /\ scope.store[name].parameters = literal.parameters
    /\ scope.store[name].body = literal.body

SetEvents(lg) == SelectSeq(lg, LAMBDA e : e.ev = "set")
StmtEvents(lg) == SelectSeq(lg, LAMBDA e : e.ev = "stmt")

\* the value of a literal
Literal(expression) ==
    CASE expression.expr = "Integer" -> ObjInteger(expression.int)
      [] expression.expr = "Boolean" -> ObjBoolean(expression.bool)
      [] expression.expr = "String"  -> ObjString(expression.str)

\* C1: a closure resolves a free identifier to the value the identifier had
\* when the function literal was evaluated, whatever was bound afterwards:
\* a call of a closure fn() { y; } that a let line bound replies what y was
\* on the Environment of that line, and a closure made inside a function
\* body does not see a later let of that body.
C1_ClosureSnapshot ==
    /\ \A n \in DOMAIN at_definition :
          (program = CallLine(Id(n), <<>>) /\ IsReader(env.store[n]))
             => response = Resolved(<<at_definition[n].store>>,
                                    ReaderName(env.store[n]))
    /\ program = Rebinder => response = Reply(ObjInteger(1))

\* a closure is called after the identifier it reads was rebound
C1_Witness ==
    \E n \in DOMAIN at_definition :
        /\ program = CallLine(Id(n), <<>>)
        /\ IsReader(env.store[n])
        /\ "x" \in DOMAIN at_definition[n].store
        /\ env.store["x"] # at_definition[n].store["x"]
        /\ response = Reply(at_definition[n].store["x"])

\* C2: a return in a callee unwinds to the call only: the program r(); 7;
\* with r bound to fn() { return x; } goes on after the call and replies 7.
C2_ReturnStopsAtCall ==
    (/\ program = CallThenSeven
     /\ BoundTo(before, "r", Returner)
     /\ response.resp = "Reply")
        => response = Reply(ObjInteger(7))

\* C3: no name is ever bound to the sentinel Let or Default.
C3_NoSentinelBound ==
    \A n \in DOMAIN env.store : env.store[n].type \notin {"Let", "Default"}

\* C4: scoping is lexical: g(5), with g bound to fn(x) { f(); }, calls the f
\* of the Environment g was defined on, and that f, a closure fn() { x; },
\* reads x on the Environment it captured, never the caller's x = 5; an f
\* bound only after g was defined is not found.
C4_LexicalScope ==
    (/\ program = CallLine(Id("g"), <<Num(5)>>)
     /\ "g" \in DOMAIN at_definition
     /\ BoundTo(env, "g", Caller))
        => LET f == get(at_definition["g"], "f")
           IN  /\ ~f.found => response = Error("identifier not found: f")
               /\ (f.found /\ IsReader(f.obj))
                     => response = Resolved(<<f.obj.env.store>>, "x")
               /\ response # Reply(ObjInteger(5))

\* g(5) replied the x of the definition of f
C4_Witness ==
    /\ program = CallLine(Id("g"), <<Num(5)>>)
    /\ "g" \in DOMAIN at_definition
    /\ BoundTo(env, "g", Caller)
    /\ response.resp = "Reply"
    /\ response.obj.type = "Integer"

\* C5: a line that is a call with literal arguments leaves the Environment
\* as it was, and h(false), with h bound to
\* fn(a) { if (a) { let x = 3; } x; }, replies the x of the Environment h
\* was defined on, whatever earlier calls of h bound.
C5_CallLeavesCallerUnchanged ==
    /\ program \in CallPrograms => env = before
    /\ (/\ program = CallLine(Id("h"), <<ExprBoolean(FALSE)>>)
        /\ "h" \in DOMAIN at_definition
        /\ BoundTo(env, "h", Shadower))
          => response = Resolved(<<at_definition["h"].store>>, "x")

\* h(true) ran its let x = 3 and the caller does not see it
C5_Witness ==
    /\ program = CallLine(Id("h"), <<ExprBoolean(TRUE)>>)
    /\ response = Reply(ObjInteger(3))
    /\ "x" \in DOMAIN env.store
    /\ env.store["x"] # ObjInteger(3)

\* C6: an identifier resolves in the local scope, then the outer scopes
\* from the innermost to the outermost, then the built-in table, and fails
\* with identifier not found otherwise.
C6_ResolutionOrder ==
    /\ \A n \in {"x", "len", "first", "y"} :
          program = <<StmtExpression(Id(n))>>
             => response = Resolved(<<before.store>>, n)
    /\ \A p \in {"x", "len"}, n \in {"x", "len", "y"} :
          program = Probe(p, n)
             => response = Resolved(<<p :> ObjInteger(9), before.store>>, n)
    /\ \A pq \in {<<"x", "len">>, <<"len", "x">>}, n \in {"x", "len", "y"} :
          program = Nested(pq[1], pq[2], n)
             => response = Resolved(<<pq[2] :> ObjInteger(8),
                                      pq[1] :> ObjInteger(9),
                                      before.store>>, n)

\* a user binding of len shadowed the built-in
C6_Witness ==
    /\ program = <<StmtExpression(Id("len"))>>
    /\ "len" \in DOMAIN before.store
    /\ response = Reply(ObjInteger(6))

\* C7: a call of a function of N parameters with M literal arguments fails
\* with the arity message when M # N, having bound nothing and evaluated no
\* statement but the line itself, and binds the parameters to the arguments
\* in order when M = N.
C7_ArityExact ==
    program \in CallPrograms =>
        LET callee == program[1].value.function
            arguments == program[1].value.arguments
            function == IF callee.expr = "Function"
                        THEN ObjFunction(callee.parameters, callee.body, before)
                        ELSE IF callee.name \in DOMAIN before.store
                             THEN before.store[callee.name]
                             ELSE ObjNull
            N == Len(function.parameters)
            M == Len(arguments)
        IN  IsFunction(function) =>
              /\ M # N =>
                    /\ response = Error("expected arity to be " \o ToString(N)
                                        \o ", got " \o ToString(M) \o " instead")
                    /\ Len(SetEvents(log)) = 0
                    /\ Len(StmtEvents(log)) = 1
              /\ M = N =>
                    /\ Len(SetEvents(log)) >= N
                    /\ \A i \in 1..N :
                          /\ SetEvents(log)[i].name = function.parameters[i].name
                          /\ SetEvents(log)[i].obj = Literal(arguments[i])

\* a function of two parameters was called with one argument
C7_Witness ==
    /\ program = Pair(1)
    /\ response = Error("expected arity to be 2, got 1 instead")


\* C8: indexing an array literal of n elements with the integer i replies
\* the element at i when 0 <= i < n and Null otherwise, for every n >= 0.
C8_ArrayIndexNeverFails ==
    \A a \in ArrayLiterals, i \in Indices :
        program = ArrayIndexLine(a, i)
           => response = Reply(IF 0 <= i /\ i < Len(a) THEN Literal(a[i + 1])
                               ELSE ObjNull)

\* C9: a key that is Null, an Array, a Map, a Function or a Builtin fails
\* a map literal and a map index, on the empty map too, with
\* unusable as map key: followed by the name of the type of the key.
C9_UnusableKeyNamed ==
    \A u \in UnusableKeys :
        (program = MapLine(u.lit) \/ \E S \in KeySets : program = MapIndexLine(S, u.lit))
           => /\ response.resp = "Error"
              /\ response.msg = "unusable as map key: " \o get_type([type |-> u.type])
              /\ get_type([type |-> u.type]) # ""

\* C10: indexing a map literal with an Integer, Boolean or String key
\* replies the value of the pair whose key has the same type and content,
\* and Null when the literal has no such pair.
C10_MapLookupByKey ==
    \A S \in KeySets, key \in UsableKeys :
        program = MapIndexLine(S, key)
           => response = Reply(IF \E k \in S : KeyOrder[k] = key
                               THEN ObjInteger(10 + CHOOSE k \in S : KeyOrder[k] = key)
                               ELSE ObjNull)

\* a map holding the Integer 1 and the String "1" was indexed with "1"
C10_Witness ==
    /\ program = MapIndexLine({1, 3}, ExprString("1"))
    /\ response = Reply(ObjInteger(13))

\* C11: push(a, v) on an array a yields the elements of a in order followed
\* by v, alone or bound by a let, and every other name, those bound to the
\* same array included, is bound afterwards to what it was bound to before;
\* a name alone on a line replies what it is bound to.
C11_PushDoesNotMutate ==
    LET bound == "a" \in DOMAIN before.store /\ before.store["a"].type = "Array"
        pushed(v) == ObjArray(Append(before.store["a"].elements, Literal(v)))
    IN  /\ \A n \in {"a", "b"}, v \in PushValues :
              (program = LetLine(n, PushCall(v)) /\ bound)
                 => /\ response = NoReply
                    /\ env.store[n] = pushed(v)
                    /\ \A m \in DOMAIN before.store \ {n} :
                          env.store[m] = before.store[m]
        /\ \A v \in PushValues :
              (program = <<StmtExpression(PushCall(v))>> /\ bound)
                 => response = Reply(pushed(v)) /\ env = before
        /\ \A n \in {"a", "b", "c"} :
              (program = <<StmtExpression(Id(n))>> /\ n \in DOMAIN before.store)
                 => response = Reply(before.store[n]) /\ env = before

\* a was rebound to push(a, v) while c was bound to the same non-empty
\* array, and c kept the elements
C11_Witness ==
    /\ program \in {LetLine("a", PushCall(v)) : v \in PushValues}
    /\ "c" \in DOMAIN before.store
    /\ before.store["c"].type = "Array"
    /\ before.store["c"] = before.store["a"]
    /\ Len(before.store["c"].elements) > 0
    /\ env.store["c"] = before.store["c"]
    /\ Len(env.store["a"].elements) = Len(env.store["c"].elements) + 1

\* the operands whose value is false or Null
Falsy == {ExprBoolean(FALSE), NullExpr}

\* C12: !v is a Boolean, true exactly when v is false or Null and false for
\* every other value, the Integer 0, the empty String and the empty Array
\* included; !!v is true exactly when if (v) takes its consequence.
C12_BangNegatesTruthiness ==
    \A v \in Operands :
        /\ program = BangLine(v) => response = Reply(ObjBoolean(v \in Falsy))
        /\ program = NotNotLine(v) => response = Reply(ObjBoolean(v \notin Falsy))
        /\ program = IfLine(v)
              => response = Reply(ObjInteger(IF v \notin Falsy THEN 1 ELSE 2))

\* !0 replied false
C12_Witness ==
    /\ program = BangLine(Num(0))
    /\ response = Reply(ObjBoolean(FALSE))

\* the type of the value of an operand
OperandType(v) ==
    CASE v.expr = "Integer"    -> "Integer"
      [] v.expr = "Boolean"    -> "Boolean"
      [] v.expr = "String"     -> "String"
      [] v.expr = "Array"      -> "Array"
      [] v.expr = "If"         -> "Null"
      [] v.expr = "Function"   -> "Function"
      [] v.expr = "Identifier" -> "Buildin"
      [] v.expr = "Map"        -> "Map"

\* the infix operators a pair of operands of one type succeeds with
Supported(type) ==
    CASE type = "Integer" -> InfixOperators
      [] type = "Boolean" -> {"Eq", "Ne"}
      [] type = "String"  -> {"Plus", "Eq", "Ne"}
      [] OTHER            -> {}

\* the name a message gives a type
TypeName(type) ==
    CASE type = "Null"    -> "null"
      [] type = "Buildin" -> "Buildin Function"
      [] OTHER            -> type

Mismatch(l, o, r) ==
    Error("type mismatch: " \o l \o " " \o TokenDisplay(o) \o " " \o r)

UnknownOperator(l, o, r) ==
    Error("unknown operator: " \o l \o " " \o TokenDisplay(o) \o " " \o r)

GetTypeName(type) == IF type = "Map" THEN "" ELSE TypeName(type)

C14_DivisionByZeroIsError ==
    \A a \in {Num(0), Num(5)} :
        program = InfixLine(a, "Slash", Num(0)) => response.resp = "Error"

StmtEvent(statement) == [ev |-> "stmt", stmt |-> statement]
SetEvent(name, object) == [ev |-> "set", name |-> name, obj |-> object]

\* C15: an if expression evaluates its condition, then the consequence
\* alone when the condition is truthy, the alternative alone when it is
\* falsy and there is one, and nothing otherwise, the value being Null: the
\* statements evaluated and the bindings made are those of the branch taken,
\* an error is the error of the branch taken, and a binding the condition
\* makes comes before the binding of the branch.
C15_OneBranchOrNone ==
    /\ \A c \in Conditions, consequence \in Consequences, alternative \in Alternatives :
          program = Branch(c, consequence, alternative) =>
            LET taken == IF c \notin Falsy THEN <<consequence>> ELSE alternative
                inner == taken[1].statements[1]
            IN  /\ taken = <<>> =>
                      /\ response = Reply(ObjNull)
                      /\ log = <<StmtEvent(program[1])>>
                      /\ env = before
                /\ (taken # <<>> /\ inner.stmt = "Let") =>
                      /\ response = NoReply
                      /\ log = <<StmtEvent(program[1]), StmtEvent(taken[1]),
                                 StmtEvent(inner),
                                 SetEvent(inner.name.name, Literal(inner.value))>>
                /\ (taken # <<>> /\ inner.stmt = "Expression") =>
                      /\ response = Error("identifier not found: " \o inner.value.name)
                      /\ log = <<StmtEvent(program[1]), StmtEvent(taken[1]),
                                 StmtEvent(inner)>>
                      /\ env = before
    /\ \A b \in BOOLEAN :
          program = Branch(CondCall(b), Bind("t", 1), <<Bind("e", 2)>>) =>
            /\ response = NoReply
            /\ SetEvents(log) = <<SetEvent("c", ObjInteger(1)),
                                  IF b THEN SetEvent("t", ObjInteger(1))
                                       ELSE SetEvent("e", ObjInteger(2))>>

\* if (false) { y; } else { let e = 2; } bound e and did not fail on y
C15_Witness ==
    /\ program = Branch(ExprBoolean(FALSE), Fail("y"), <<Bind("e", 2)>>)
    /\ response = NoReply
    /\ "e" \in DOMAIN env.store
    /\ "e" \notin DOMAIN before.store

\* the names bound, in the order they were bound
SetNames(lg) == [i \in 1..Len(SetEvents(lg)) |-> SetEvents(lg)[i].name]

\* C16: a program with a failing sub-expression yields the Error of the
\* first failure in evaluation order, and nothing that comes later is
\* evaluated: the statements begun and the names bound are those before the
\* failure, through blocks, calls and the rest of the program, and the
\* Environment gains the a of let a = 1; y; let b = 2; and nothing else.
C16_ErrorsShortCircuit ==
    \A c \in ErrorCases :
        program = c.prog =>
            /\ response = Error(c.msg)
            /\ SetNames(log) = c.sets
            /\ Len(StmtEvents(log)) = c.stmts
            /\ DOMAIN env.store =
                  DOMAIN before.store \cup (IF c.prog = FailingSecond THEN {"a"} ELSE {})

\* the failure inside an if block of a called function ended the block, the
\* body, the call and the program
C16_Witness ==
    /\ program = FailingInCall
    /\ response = Error(NotFound("y"))
    /\ SetNames(log) = <<"s">>
    /\ "b" \notin DOMAIN env.store

RECURSIVE Made(_, _)
\* the statements made by the attempts from attempt i on, in their order
Made(attempts, i) ==
    IF i > Len(attempts) THEN <<>> ELSE attempts[i].made \o Made(attempts, i + 1)

FailedAttempts(attempts) == {i \in 1..Len(attempts) : attempts[i].made = <<>>}

\* C18: parse_program goes through the whole line whatever fails: it
\* returns, having tried statements up to the end token; every attempt
\* starts one token after the token the attempt before it ended at; the
\* error list has one diagnostic for each attempt that failed; the Program
\* holds the statements of the attempts that succeeded, in their order; and
\* exists_errors is true exactly when the error list is not empty.
C18_AccumulateAndContinue ==
    lines > 0 =>
        /\ parse.kind = "Ok"
        /\ parse.p.current_token = Eof
        /\ \A i \in 1..Len(parse.p.attempts) :
              parse.p.attempts[i].from =
                  IF i = 1 THEN 1 ELSE parse.p.attempts[i - 1].upto + 1
        /\ Len(parse.p.errors) = Cardinality(FailedAttempts(parse.p.attempts))
        /\ parse.val = Made(parse.p.attempts, 1)
        /\ exists_errors(parse.p) <=> get_errors(parse.p) # <<>>

\* the texts a diagnostic may give a token
TokenTexts(token) ==
    CASE token.tok = "Illegal" -> {token.ch, "Illegal(" \o token.ch \o ")"}
      [] token.tok = "Eof"     -> {"Eof", "EOF", ""}
      [] OTHER                 -> {Display(token).text}

\* C19: every expectation that failed, whatever the token met, the end
\* token and an illegal token included, left in the error list the
\* diagnostic expected next token to be X, got Y instead.
C19_ExpectationDiagnosed ==
    \A i \in 1..Len(parse.p.failed) :
        /\ parse.kind = "Ok"
        /\ \E j \in 1..Len(parse.p.errors), got \in TokenTexts(parse.p.failed[i].actual) :
              parse.p.errors[j] = "expected next token to be "
                                  \o parse.p.failed[i].expected
                                  \o ", got " \o got \o " instead"

\* the texts of the tokens the parser expects
ExpectedTexts == {"Ident", "=", "(", ")", "{", "}", "]", ":", ","}

\* the diagnostics that carry the character c
Carrying(c) ==
    {"illegal char found: " \o c}
    \cup {"no prefix parse function for " \o got \o " found" :
             got \in TokenTexts(TokIllegal(c))}
    \cup {"expected next token to be " \o want \o ", got " \o got \o " instead" :
             want \in ExpectedTexts, got \in TokenTexts(TokIllegal(c))}

\* C20: a line with an illegal character c, wherever the parser meets it,
\* is parsed to the end with a diagnostic that carries c in the error list.
C20_IllegalIsParseError ==
    \A c \in IllegalChars :
        (\E i \in 1..Len(parse.p.input) : parse.p.input[i] = TokIllegal(c))
            => /\ parse.kind = "Ok"
               /\ exists_errors(parse.p)
               /\ \E j \in 1..Len(parse.p.errors) : parse.p.errors[j] \in Carrying(c)

\* the level the operator of a binary expression has
Level(operator) ==
    CASE operator \in {"Eq", "Ne"}          -> 1
      [] operator \in {"Lt", "Gt"}          -> 2
      [] operator \in {"Plus", "Minus"}     -> 3
      [] operator \in {"Asterisk", "Slash"} -> 4

RECURSIVE Flat(_)
RECURSIVE FlatList(_, _)
\* the tokens of an expression, from left to right
Flat(e) ==
    CASE e.expr = "Identifier" -> <<TokIdentifier(e.name)>>
      [] e.expr = "Integer"    -> <<TokInteger(e.int)>>
      [] e.expr = "Prefix"     -> <<Token(e.operator)>> \o Flat(e.right)
      [] e.expr = "Infix"      -> Flat(e.left) \o <<Token(e.operator)>> \o Flat(e.right)
      [] e.expr = "Grouped"    -> <<Token("LParen")>> \o Flat(e.inner) \o <<Token("RParen")>>
      [] e.expr = "Call"       ->
            Flat(e.function) \o <<Token("LParen")>> \o FlatList(e.arguments, 1)
            \o <<Token("RParen")>>
      [] e.expr = "Index"      ->
            Flat(e.left) \o <<Token("LBracket")>> \o Flat(e.index)
            \o <<Token("RBracket")>>

FlatList(es, i) ==
    IF i > Len(es) THEN <<>>
    ELSE Flat(es[i]) \o (IF i < Len(es) THEN <<Token("Comma")>> ELSE <<>>)
         \o FlatList(es, i + 1)

RECURSIVE Grouped(_)
\* every binary expression has on its left no binary expression of a lower
\* level and on its right only binary expressions of a higher level; the
\* operand of a prefix operator is no binary expression; what is called or
\* indexed is neither a binary nor a prefix expression
Grouped(e) ==
    CASE e.expr = "Infix" ->
            /\ e.left.expr = "Infix" => Level(e.left.operator) >= Level(e.operator)
            /\ e.right.expr = "Infix" => Level(e.right.operator) > Level(e.operator)
            /\ Grouped(e.left) /\ Grouped(e.right)
      [] e.expr = "Prefix" -> e.right.expr # "Infix" /\ Grouped(e.right)
      [] e.expr = "Call" ->
            /\ e.function.expr \notin {"Infix", "Prefix"}
            /\ Grouped(e.function)
            /\ \A i \in 1..Len(e.arguments) : Grouped(e.arguments[i])
      [] e.expr = "Index" ->
            /\ e.left.expr \notin {"Infix", "Prefix"}
            /\ Grouped(e.left) /\ Grouped(e.index)
      [] OTHER -> TRUE

\* C21: a chain of operands and binary operators parses without errors to
\* the one expression over its tokens in which an operator of a higher level
\* groups before one of a lower level, operators of the same level group
\* from the left, a prefix operator groups before every binary operator,
\* and call and index group before prefix and binary operators; a + b - c
\* is ((a + b) - c) and -a * b is ((-a) * b).
C21_PrecedenceGrouping ==
    (lines > 0 /\ parse.p.input \in PrecedenceLines) =>
        /\ parse.kind = "Ok"
        /\ ~exists_errors(parse.p)
        /\ Len(parse.val) = 1
        /\ parse.val[1].stmt = "Expression"
        /\ Flat(parse.val[1].value) = parse.p.input
        /\ Grouped(parse.val[1].value)
        /\ parse.p.input = Words(<<"a", "+", "b", "-", "c">>) =>
              parse.val[1].value =
                  ExprInfix(ExprInfix(Id("a"), "Plus", Id("b")), "Minus", Id("c"))
        /\ parse.p.input = Words(<<"-", "a", "*", "b">>) =>
              parse.val[1].value =
                  ExprInfix(ExprPrefix("Minus", Id("a")), "Asterisk", Id("b"))

C21_Witness ==
    /\ parse.p.input = Words(<<"-", "a", "+", "b", "(", "x", ")", "*", "-", "c", "[", "1", "]">>)
    /\ parse.val =
          <<StmtExpression(
              ExprInfix(ExprPrefix("Minus", Id("a")), "Plus",
                        ExprInfix(ExprCall(Id("b"), <<Id("x")>>), "Asterisk",
                                  ExprPrefix("Minus", ExprIndex(Id("c"), Num(1))))))>>

\* the calls of next_token that gave the end token
Ended(calls) == {i \in 1..Len(calls) : calls[i].token = Eof}

\* C23: every call of next_token that gives a token other than the end
\* token moves the position forward by at least one character, no call
\* moves it backward, the end token is given by one of the first n + 1
\* calls on an input of n characters, and every call after the first that
\* gave the end token gives it again.
C23_TokenStreamEndsStably ==
    /\ \A i \in 1..Len(lexer.calls) :
          /\ lexer.calls[i].from <= lexer.calls[i].to
          /\ lexer.calls[i].token # Eof => lexer.calls[i].from < lexer.calls[i].to
    /\ Len(lexer.calls) > Len(lexer.l.input) => Ended(lexer.calls) # {}
    /\ \A i \in Ended(lexer.calls) :
          \A j \in i..Len(lexer.calls) : lexer.calls[j].token = Eof

\* C22: an expression that parsed without errors is printed as a text that
\* parses again without errors, and what that gives is printed as the same
\* text.
C22_DisplayRoundTrips ==
    printed.parsed =>
        /\ printed.second.kind = "Ok"
        /\ ~exists_errors(printed.second.p)
        /\ printed.again = printed.text

\* the program has a let of name among its statements
Binds(statements, name) ==
    \E i \in 1..Len(statements) :
        statements[i].stmt = "Let" /\ statements[i].name.name = name

\* C24: the loop keeps one Environment: a line whose parsing gave an error
\* leaves it as it was, whatever statements of the line were parsed; every
\* name bound before a line is bound after it, to the same value unless the
\* line was parsed without error and binds the name; and a line that is the
\* name alone replies the value the lines before it bound the name to.
C24_EnvironmentPersists ==
    [][/\ exists_errors(parse'.p) => env' = env
       /\ \A n \in DOMAIN env.store :
             /\ n \in DOMAIN env'.store
             /\ (exists_errors(parse'.p) \/ ~Binds(parse'.val, n))
                   => env'.store[n] = env.store[n]
             /\ (/\ parse'.kind = "Ok"
                 /\ ~exists_errors(parse'.p)
                 /\ parse'.val = <<StmtExpression(Id(n))>>)
                   => response' = Reply(env.store[n])]_vars

C24_Witness ==
    /\ lines > 1
    /\ exists_errors(parse.p)
    /\ parse.val # <<>>
    /\ parse.val[1] = StmtLet(Id("y"), Num(5))
    /\ DOMAIN env.store = {"x"}
    /\ response = ParseErrors

\* C25: parse_program returns on every line, at the end token, every
\* statement it tried having taken at least one token, and no diagnostic
\* left unfinished or loop gone round without taking a token.
C25_ParserTerminates ==
    lines > 0 =>
        /\ parse.kind \notin {"Overflow", "Spin"}
        /\ is_current_token(parse.p, Eof)
        /\ \A i \in 1..Len(parse.p.attempts) :
              parse.p.attempts[i].from <= parse.p.attempts[i].upto

\* the arguments up to the first that fails, or all of them
Reached(flags) ==
    IF \A i \in 1..Len(flags) : flags[i]
    THEN Len(flags)
    ELSE CHOOSE i \in 1..Len(flags) : ~flags[i] /\ \A j \in 1..(i - 1) : flags[j]

ReachedNames(flags) == [i \in 1..Reached(flags) |-> ArgumentNames[i]]

AllYield(flags) == \A i \in 1..Len(flags) : flags[i]

\* C26: a call evaluates the callee, then the arguments from the left, then
\* applies the function; an array literal evaluates its elements from the
\* left.  The names bound are, in this order, that of the callee, those of
\* the arguments up to the first that fails, and those of the application;
\* when the callee fails no argument is evaluated, when an argument fails
\* no later one is and the function is not applied, and the error is that
\* of the leftmost failing sub-expression.
C26_CallOrder ==
    \A o \in Outcomes :
        /\ program = OrderedCall(o) =>
              /\ ~o.callee =>
                    /\ response = Error(NotFound(Unbound(CalleeName)))
                    /\ SetNames(log) = <<CalleeName>>
              /\ (o.callee /\ ~AllYield(o.arguments)) =>
                    /\ response = Error(NotFound(Unbound(
                                        ArgumentNames[Reached(o.arguments)])))
                    /\ SetNames(log) = <<CalleeName>> \o ReachedNames(o.arguments)
              /\ (o.callee /\ AllYield(o.arguments) /\ Len(o.arguments) # 2) =>
                    /\ response.resp = "Error"
                    /\ SetNames(log) = <<CalleeName>> \o ReachedNames(o.arguments)
              /\ (o.callee /\ AllYield(o.arguments) /\ Len(o.arguments) = 2) =>
                    /\ response = Reply(ObjInteger(9))
                    /\ SetNames(log) = <<CalleeName, "a", "b", "x", "y", "r">>
        /\ program = OrderedArray(o) =>
              /\ ~AllYield(o.arguments) =>
                    /\ response = Error(NotFound(Unbound(
                                        ArgumentNames[Reached(o.arguments)])))
                    /\ SetNames(log) = ReachedNames(o.arguments)
              /\ AllYield(o.arguments) =>
                    /\ response = Reply(ObjArray([i \in 1..Len(o.arguments) |->
                                                     ObjInteger(i)]))
                    /\ SetNames(log) = ReachedNames(o.arguments)

\* f(a, bb, cc) with f and a yielding: the error is that of bb, and c was
\* not bound
C26_Witness ==
    /\ program = OrderedCall([callee |-> TRUE,
                              arguments |-> <<TRUE, FALSE, FALSE>>])
    /\ response = Error(NotFound("bb"))
    /\ SetNames(log) = <<"f", "a", "b">>

\* n is bound to a closure of fn() { n; }
SelfBound(scope, n) ==
    /\ n \in DOMAIN scope.store
    /\ n \in DOMAIN at_definition
    /\ IsReader(scope.store[n])
    /\ ReaderName(scope.store[n]) = n

\* C27 as claimed: the Environment a function let n = fn() { n; } bound
\* captured is the Environment as it was before the let; a call n() fails
\* with identifier not found: n when n was not bound before the let, and
\* replies what n was bound to before the let otherwise; the same holds of
\* a function bound and called inside a function body.
C27_OwnNameUnseen ==
    \A n \in SelfNames :
        /\ SelfBound(env, n) => env.store[n].env = at_definition[n]
        /\ (program = CallLine(Id(n), <<>>) /\ SelfBound(env, n)) =>
              response = IF n \in DOMAIN at_definition[n].store
                         THEN Reply(at_definition[n].store[n])
                         ELSE Error(NotFound(n))
        /\ program = SelfInside(n) =>
              response = IF n \in DOMAIN before.store
                         THEN Reply(before.store[n])
                         ELSE Error(NotFound(n))

\* C27 as the code has it: when n was not bound before the let, the call
\* fails with identifier not found: n unless n is the name of a built-in
\* function, and then replies that built-in function.
C27_OwnNameUnseenButBuildin ==
    \A n \in SelfNames :
        /\ SelfBound(env, n) => env.store[n].env = at_definition[n]
        /\ (program = CallLine(Id(n), <<>>) /\ SelfBound(env, n)) =>
              response = CASE n \in DOMAIN at_definition[n].store ->
                                  Reply(at_definition[n].store[n])
                           [] n \notin DOMAIN at_definition[n].store
                              /\ n \in BuildinNames -> Reply(ObjBuildin(n))
                           [] OTHER -> Error(NotFound(n))
        /\ program = SelfInside(n) =>
              response = CASE n \in DOMAIN before.store -> Reply(before.store[n])
                           [] n \notin DOMAIN before.store
                              /\ n \in BuildinNames -> Reply(ObjBuildin(n))
                           [] OTHER -> Error(NotFound(n))

\* x() with x bound to fn() { x; } by a line before which x was 1 replied 1
C27_Witness ==
    /\ program = CallLine(Id("x"), <<>>)
    /\ SelfBound(env, "x")
    /\ "x" \in DOMAIN at_definition["x"].store
    /\ at_definition["x"].store["x"] = ObjInteger(1)
    /\ response = Reply(ObjInteger(1))

\* the Environment with name bound to the integer value at top level
Rebound(scope, name, value) ==
    [scope EXCEPT !.store = (name :> ObjInteger(value)) @@ @]

\* C28: a let in the block of an if expression binds in the scope the if
\* expression is evaluated on: at top level the statement after the if
\* reads the value, and the Environment after the line is the one before
\* it with the name bound or bound anew, also through two blocks; in a
\* function body the statement after the if reads it and the caller's
\* Environment is as it was.
C28_BlocksShareScope ==
    /\ \A c \in BOOLEAN :
          program = IfThenRead(c) =>
              /\ response = Reply(ObjInteger(IF c THEN 3 ELSE 4))
              /\ env = Rebound(before, "x", IF c THEN 3 ELSE 4)
    /\ program = NestedIfThenRead =>
          /\ response = Reply(ObjInteger(5))
          /\ env = Rebound(before, "y", 5)
    /\ \A b \in BOOLEAN :
          program = InFunction(b) =>
              /\ env = before
              /\ response = IF b THEN Reply(ObjInteger(3))
                            ELSE Resolved(<<before.store>>, "x")
    /\ \A n \in {"x", "y"} :
          program = <<StmtExpression(Id(n))>> =>
              response = Resolved(<<before.store>>, n)

\* the let in the alternative overwrote the x bound before the line
C28_Witness ==
    /\ program = IfThenRead(FALSE)
    /\ "x" \in DOMAIN before.store
    /\ before.store["x"] = ObjInteger(1)
    /\ env.store["x"] = ObjInteger(4)
    /\ response = Reply(ObjInteger(4))

Failing == FailingPlain \cup FailingAfterLet

\* the first statement of the program that fails, 0 when none does
FirstFailing(prog) ==
    IF \A i \in 1..Len(prog) : prog[i] \notin Failing
    THEN 0
    ELSE CHOOSE i \in 1..Len(prog) :
            prog[i] \in Failing /\ \A j \in 1..(i - 1) : prog[j] \notin Failing

RECURSIVE Bound(_, _, _, _)
\* store after the lets of integers prog[i..k]
Bound(store, prog, i, k) ==
    IF i > k THEN store
    ELSE Bound((prog[i].name.name :> Literal(prog[i].value)) @@ store, prog, i + 1, k)

\* C29 as claimed: when eval yields an Error the Environment is the one
\* before the program with the bindings of the statements before the
\* failing one, and nothing of the failing statement or after it.
C29_FailingStatementChangesNothing ==
    (program \in StepPrograms /\ FirstFailing(program) > 0) =>
        /\ response = Error(NotFound("q"))
        /\ env.outer = before.outer
        /\ env.store = Bound(before.store, program, 1, FirstFailing(program) - 1)

\* C29 as the code has it: the failing statement leaves the bindings of the
\* lets it evaluated, in blocks of if expressions, before it failed; the let
\* that fails does not bind its name.
C29_BindingsBeforeFailureRemain ==
    (program \in StepPrograms /\ FirstFailing(program) > 0) =>
        /\ response = Error(NotFound("q"))
        /\ env.outer = before.outer
        /\ env.store =
              LET k == FirstFailing(program)
                  kept == Bound(before.store, program, 1, k - 1)
              IN  CASE program[k] = StmtExpression(InnerThenFail("y")) ->
                          ("y" :> ObjInteger(7)) @@ kept
                    [] program[k] = StmtLet(Id("x"), InnerThenFail("x")) ->
                          ("x" :> ObjInteger(7)) @@ kept
                    [] OTHER -> kept

\* let x = 1; let x = q; let y = 2; on an Environment where x was 2 and y
\* was not bound: x is 1, y is not bound
C29_Witness ==
    /\ program = <<StmtLet(Id("x"), Num(1)), StmtLet(Id("x"), Id("q")),
                   StmtLet(Id("y"), Num(2))>>
    /\ response = Error(NotFound("q"))
    /\ "x" \in DOMAIN before.store
    /\ before.store["x"] = ObjInteger(2)
    /\ env.store["x"] = ObjInteger(1)
    /\ "y" \notin DOMAIN env.store

\* the pair written last with key k, 0 when there is none
LastWith(c, k) ==
    IF \A i \in 1..Len(c.keys) : c.keys[i] # k
    THEN 0
    ELSE CHOOSE i \in 1..Len(c.keys) :
            c.keys[i] = k /\ \A j \in (i + 1)..Len(c.keys) : c.keys[j] # k

\* the pairs the literal keeps, in the order of their keys
InKeyOrder(c) ==
    SelectSeq([k \in 1..Len(MapKeys) |-> LastWith(c, k)], LAMBDA i : i > 0)

\* how many of them are evaluated: up to the first whose value fails
Evaluable(c) ==
    IF \A j \in 1..Len(InKeyOrder(c)) : c.yields[InKeyOrder(c)[j]]
    THEN Len(InKeyOrder(c))
    ELSE (CHOOSE j \in 1..Len(InKeyOrder(c)) :
              /\ ~c.yields[InKeyOrder(c)[j]]
              /\ \A h \in 1..(j - 1) : c.yields[InKeyOrder(c)[h]]) - 1

RECURSIVE KeptPairs(_, _, _)
\* the Map after the pairs InKeyOrder(c)[j..] are stored in map
KeptPairs(c, j, map) ==
    IF j > Len(InKeyOrder(c)) THEN map
    ELSE KeptPairs(c, j + 1,
            (MapKeyFrom(MapKeys[c.keys[InKeyOrder(c)[j]]].value)
                :> MapPair(MapKeys[c.keys[InKeyOrder(c)[j]]].value,
                           ObjInteger(10 * InKeyOrder(c)[j]))) @@ map)

\* the integers that were evaluated as statements, in their order
ValuesLogged(lg) ==
    [i \in 1..Len(SelectSeq(lg, LAMBDA e : e.ev = "stmt" /\ e.stmt.stmt = "Expression"
                                          /\ e.stmt.value.expr = "Integer")) |->
        SelectSeq(lg, LAMBDA e : e.ev = "stmt" /\ e.stmt.stmt = "Expression"
                                 /\ e.stmt.value.expr = "Integer")[i].stmt.value.int]

\* C30: of the pairs of a map literal with the same key expression the one
\* written last is kept; the pairs kept are evaluated in the order of their
\* key expressions, not as written; of two pairs whose keys have the same
\* value the one evaluated last gives the value stored; and when values
\* fail the error is that of the first failing pair in that order, the
\* pairs after it not being evaluated.
C30_MapPairsInKeyOrder ==
    \A c \in MapCases :
        (lines > 0 /\ parse.p.input = MapTokens(c)) =>
            /\ parse.kind = "Ok" /\ ~exists_errors(parse.p)
            /\ Len(program[1].value.pairs) = Len(InKeyOrder(c))
            /\ ValuesLogged(log) =
                  [j \in 1..Evaluable(c) |-> 10 * InKeyOrder(c)[j]]
            /\ Evaluable(c) = Len(InKeyOrder(c)) =>
                  response = Reply(ObjMap(KeptPairs(c, 1, <<>>)))
            /\ Evaluable(c) < Len(InKeyOrder(c)) =>
                  response = Error(NotFound(Unbound(
                                 ArgumentNames[InKeyOrder(c)[Evaluable(c) + 1]])))

\* {1 + 1: aa, 2: bb}: the error is that of the pair written second;
\* {1 + 1: 10, 2: 20, 2: 30} stores 10 under the key 2
C30_Witness ==
    \/ /\ parse.p.input = MapTokens([keys |-> <<4, 2>>, yields |-> <<FALSE, FALSE>>])
       /\ response = Error(NotFound("bb"))
       /\ lines = 1
    \/ /\ parse.p.input = MapTokens([keys |-> <<4, 2, 2>>,
                                     yields |-> <<TRUE, TRUE, TRUE>>])
       /\ ValuesLogged(log) = <<30, 10>>
       /\ response = Reply(ObjMap(MapKeyFrom(ObjInteger(2))
                                     :> MapPair(ObjInteger(2), ObjInteger(10))))
       /\ lines = 2

====
